---- MODULE Spec2Model ----
(***************************************************************************)
(* Flock Wars backend: the game session state machine (GameManager and the *)
(* socket handlers that drive it) and the payment verification engine      *)
(* (verifyAndBroadcastTx with its UTXO claim tracker and replay set).      *)
(*                                                                         *)
(* Spec    one game of GameManager, driven by the socket handlers of       *)
(*         sessionManager.ts; verifyFn is the parameter of verifyShot and  *)
(*         its outcome is chosen when the awaiting call resumes.           *)
(* SpecTx  verifyAndBroadcastTx calls of several games sharing the         *)
(*         spentTracker and the usedTxids set.                             *)
(* SpecPlace  the placement check of submitSheepPositions with the herd of *)
(*         the program (10 sheep), applied to placements drawn from a      *)
(*         part of the arena.                                              *)
(* SpecPlay  Spec from the start of play, with herds of one or more sheep. *)
(* SpecFunds, SpecPause  play with a wallet that may be short, without and *)
(*         with the pause for funds.                                       *)
(* SpecGate  verifyAndBroadcastTx calls of one game.                       *)
(* SpecPayout  endGame's payout split over pots and configured cuts.       *)
(* SpecEscrow, SpecSettle  the escrow manager: key derivation across       *)
(*         restarts, and the settlement of an ended game.                  *)
(* SpecEvict  Spec with the removal of the ended game from the registry.   *)
(* SpecRegistry  the games and playerToGame maps of GameManager over       *)
(*         several games and sockets.                                      *)
(***************************************************************************)
EXTENDS Integers, Sequences, FiniteSets, TLC

(***************************************************************************)
(* Bounds of the game model.                                               *)
(***************************************************************************)
\* herd size; the program's value is 10, scaled down so that a game can be
\* played to its end within the explored state space
MAX_SHEEP == 1
\* the cells of row 3 of the arena that players place sheep on and fire at
NumCells == 2
\* socket ids handed out by the transport (two players and reconnections)
NumSockets == 3
\* verifyShot calls that reach the verifyFn await, over the whole game
MaxCalls == 2

(***************************************************************************)
(* Bounds of the payment verification model.                               *)
(***************************************************************************)
\* games that submit transactions
NumGames == 2
\* games that createGame makes, over the whole run
MaxGames == 2
\* outpoints (source txid, output index) that transactions spend
NumOutpoints == 2
\* verifyAndBroadcastTx calls that reach an await, over the whole run
MaxTxCalls == 3
\* the clock runs from 0 to MaxTime, in units of ten minutes
MaxTime == 9
\* recordTxid prunes when the number of recorded ids is a multiple of this;
\* the program's value is 100, scaled down so that a prune happens
PruneEvery == 2
\* largest pot of the payout split
MaxPot == 30
\* most unspent outputs the escrow address of a game holds at settlement
MaxUtxos == 2

(***************************************************************************)
(* Program constants.                                                      *)
(***************************************************************************)
\* SpentUTXOTracker.EXPIRY_MS (10 minutes), in units of ten minutes
EXPIRY_MS == 1
\* the cutoff of recordTxid's prune (3600_000 ms), in units of ten minutes
TXID_TTL == 6
\* MAX_SHEEP of the program, used where the full herd is placed
FullHerd == 10
\* HERD_SIZES
HERD_SIZES == <<1, 2, 3, 4>>
\* PLATFORM_CUT_PERCENT default
CutPct == 50
\* settlement threshold of handleGameEnd
SettleDust == 546

Slots == {"player1", "player2"}
Sockets == 1..NumSockets

\* game.missSats / game.hitSats, locked by createGame
missSats == 600
hitSats == 1200

\* player addresses passed to createGame, and a foreign one
address == [s \in Slots |-> IF s = "player1" THEN "addr1" ELSE "addr2"]
Addresses == {"addr1", "addr2", "addrX"}
\* escrowManager.getGameAddress(game.id)
EscrowAddress == "escrow"

ARENA_COLS ==
  [r \in 0..6 |->
     CASE r = 0 -> 3..6
       [] r = 1 -> 2..6
       [] r = 2 -> 1..6
       [] r = 3 -> 0..6
       [] r = 4 -> 1..6
       [] r = 5 -> 2..6
       [] r = 6 -> 3..6]

isValidCell(row, col) ==
  IF row < 0 \/ row > 6 THEN FALSE ELSE col \in ARENA_COLS[row]

\* cellKey is injective on the cells used here; the key is the pair itself
cellKey(row, col) == <<row, col>>

\* the cells the inputs are drawn from: NumCells cells of row 3 and the
\* off-grid cell (0,0)
GridCells == {<<3, c>> : c \in 0..(NumCells - 1)}
OffGrid == <<0, 0>>
InputCells == GridCells \cup {OffGrid}

\* getHexNeighbors, as a set of cells
getHexNeighbors(row, col) ==
  IF row % 2 = 0
  THEN {<<row - 1, col - 1>>, <<row - 1, col>>,
        <<row, col - 1>>, <<row, col + 1>>,
        <<row + 1, col - 1>>, <<row + 1, col>>}
  ELSE {<<row - 1, col>>, <<row - 1, col + 1>>,
        <<row, col - 1>>, <<row, col + 1>>,
        <<row + 1, col>>, <<row + 1, col + 1>>}

\* the cells the full-herd placements are drawn from: rows 0, 2, 4 and 6 hold
\* a row of four, a row of three, a pair and a single cell, four more cells
\* lie apart from them and from each other, and one cell is off the grid
PlaceCells ==
  {<<0, 3>>, <<0, 4>>, <<0, 5>>, <<0, 6>>,
   <<2, 1>>, <<2, 2>>, <<2, 3>>,
   <<4, 1>>, <<4, 2>>,
   <<6, 3>>,
   <<2, 5>>, <<4, 4>>, <<4, 6>>, <<6, 5>>,
   OffGrid}

\* placements of one cell fewer than the herd, of the herd, and of one more
PlaceInputs ==
  {S \in SUBSET PlaceCells : Cardinality(S) \in (FullHerd - 1)..(FullHerd + 1)}

opponentSlot(s) == IF s = "player1" THEN "player2" ELSE "player1"

NoShot ==
  [id |-> 0, shooter |-> "none", cell |-> OffGrid, isHit |-> FALSE,
   requiredAmount |-> 0, requiredTo |-> "none", requiredFrom |-> "none"]

\* ------------------------------------------------------------------------
\* Payment verification: identifiers and transactions
\* ------------------------------------------------------------------------
Games == 1..NumGames
NoGame == 0
Outpoints == 1..NumOutpoints

\* the output lists of the transactions: one pays missSats to the escrow
\* address in two outputs and missSats to addr1 in a third, the other pays the
\* escrow address less than any required amount
PayBoth ==
  <<[to |-> EscrowAddress, satoshis |-> 300],
    [to |-> EscrowAddress, satoshis |-> 300],
    [to |-> "addr1", satoshis |-> 600]>>
PayLittle == <<[to |-> EscrowAddress, satoshis |-> 100]>>

\* the input lists: one outpoint, or two different ones
InputLists ==
  {<<a>> : a \in Outpoints}
    \cup {<<x[1], x[2]>> : x \in {y \in Outpoints \X Outpoints : y[1] < y[2]}}

\* Parsed transactions.  tx.id is the hash of the serialisation, so the record
\* itself stands for the txid.  Every transaction spends at least one outpoint.
Txs ==
  [inputs : InputLists, outputs : {PayBoth}]
    \cup [inputs : {<<1>>}, outputs : {PayLittle}]

\* the address whose unspent output an outpoint is: only its key can sign an
\* input that spends it
OutpointOwner(o) == IF o = 1 THEN "addr1" ELSE "addrX"
\* the addresses that fund a transaction
FundersOf(tx) == {OutpointOwner(tx.inputs[k]) : k \in 1..Len(tx.inputs)}

\* a rawTxHex that fails the hex validation or Transaction.fromHex
BadHex == [inputs |-> <<>>, outputs |-> <<>>]

\* LocalVerifyResult (the txid is the transaction of the call)
TxResult(verified, amount, error) ==
  [verified |-> verified, amount |-> amount, error |-> error]
NoTxRet == TxResult(FALSE, 0, "none")

\* what is recorded about the call that returned last: its game, whether it
\* started after a verified=true return for the same transaction, whether a
\* call of another game returned verified=true for the same transaction while
\* this one was in flight, and the outpoints it had newly claimed that are
\* still claimed by its game when it returns
TxObs(gameId, afterAccept, rivalOk, leftover) ==
  [gameId |-> gameId, afterAccept |-> afterAccept, rivalOk |-> rivalOk,
   leftover |-> leftover]
NoTxObs == TxObs(NoGame, FALSE, FALSE, {})

VARIABLES
  phase, currentTurn, pot, pendingShot, endReason, winner, pausedFor,
  socketId, sheepPositions, sheepReady, shotsReceived, sheepRemaining,
  shotsFired, hits, misses, connected,
  turnTimer, turnTimerNo, pauseTimer, graceTimers,
  playerToGame, live, nextSock,
  inflight, nCalls, shotSeq, applied,
  gameEnds, ret,
  \* payment verification (bsvService.ts)
  spentTracker, usedTxids, txidTimestamps, now,
  txCalls, nTxCalls, accepted, txRet, txObs,
  \* the placement check on a full herd
  placement, placeResult,
  \* endGame's payout split
  payPot, cutEnv, payout,
  \* what fetchBalance reports for each player's address
  balance,
  \* the escrow manager (bsvService.ts, EscrowManager), the environment it
  \* reads, the games deleted from the game manager, and what its calls
  \* returned
  processEnv, masterSeed, initialized, evicted, firstDerived, derived, settled,
  \* the games and playerToGame maps of GameManager over several games
  registry

\* the fields of GameState and of its two PlayerStates
coreVars == <<shotsReceived, hits, misses, shotsFired, sheepRemaining, pot, currentTurn>>
gameVars == <<phase, currentTurn, pot, pendingShot, endReason, winner, pausedFor,
              socketId, sheepPositions, sheepReady, shotsReceived, sheepRemaining,
              shotsFired, hits, misses, connected>>
\* turnTimerNo counts the turn timers started so far: it tells the timer
\* that is armed from the ones armed before it
timerVars == <<turnTimer, turnTimerNo, pauseTimer, graceTimers>>
sockVars == <<playerToGame, live, nextSock>>
callVars == <<inflight, nCalls, shotSeq, applied>>
gmVars == <<gameVars, timerVars, sockVars, callVars, gameEnds, ret>>
txVars == <<spentTracker, usedTxids, txidTimestamps, now, txCalls, nTxCalls,
            accepted, txRet, txObs>>
plVars == <<placement, placeResult>>
payVars == <<payPot, cutEnv, payout>>
escVars == <<processEnv, masterSeed, initialized, evicted, firstDerived, derived, settled>>
auxVars == <<plVars, payVars, balance, escVars, registry>>
vars == <<gmVars, txVars, auxVars>>

\* ------------------------------------------------------------------------
\* GameManager helpers
\* ------------------------------------------------------------------------
\* getGameBySocket: the registry holds the one game of this model
getGameBySocket(sid) == sid \in playerToGame

getSlot(sid) ==
  IF socketId["player1"] = sid THEN "player1"
  ELSE IF socketId["player2"] = sid THEN "player2"
  ELSE "none"

\* validateSheepPositions for a herd of maxSheep, on placements given as sets
\* of cells
validatePositions(positions, maxSheep) ==
  /\ Cardinality(positions) = maxSheep
  /\ \A p \in positions : isValidCell(p[1], p[2])

validateSheepPositions(positions) == validatePositions(positions, MAX_SHEEP)

\* endGame's payout split
winnerPayoutOf(p) == (p * (100 - CutPct)) \div 100

GameOverResult(w, reason, p) ==
  [winner |-> w, loser |-> opponentSlot(w), reason |-> reason, pot |-> p,
   winnerPayout |-> winnerPayoutOf(p), platformCut |-> p - winnerPayoutOf(p)]

\* handleGameEnd up to its first await: whether escrowManager.settle is called
handleGameEnd(result) ==
  gameEnds' = Append(gameEnds,
     [winner |-> result.winner, reason |-> result.reason, pot |-> result.pot,
      winnerPayout |-> result.winnerPayout, platformCut |-> result.platformCut,
      settle |-> (result.pot > 0 /\ (result.winnerPayout > SettleDust
                                       \/ result.platformCut > SettleDust))])

\* the pendingPayment field of reconnect_result: what the reconnecting player
\* still has to pay, and to whom
NoPayment == [amount |-> 0, toAddress |-> "none"]
pendingPaymentOf(slot) ==
  IF pendingShot # NoShot /\ pendingShot.requiredFrom = slot
  THEN [amount |-> pendingShot.requiredAmount, toAddress |-> pendingShot.requiredTo]
  ELSE NoPayment

\* what fireShot, verifyShot or reconnect_game returned or announced when it
\* was the last handler to run (success, applied for a verifyShot that applied
\* its shot, pendingPayment for a reconnect); NoRet after any other handler.
\* The error strings are the values of FireError and VerifyError.
Ret(op, ok, applied_) ==
  [op |-> op, success |-> ok, applied |-> applied_, pendingPayment |-> NoPayment]
NoRet == Ret("none", FALSE, FALSE)
ReconnectResult(ok, payment) ==
  [op |-> "reconnect", success |-> ok, applied |-> FALSE, pendingPayment |-> payment]

GameInit ==
  /\ phase = "setup"
  /\ currentTurn \in Slots
  /\ pot = 0
  /\ pendingShot = NoShot
  /\ endReason = "none"
  /\ winner = "none"
  /\ pausedFor = "none"
  /\ socketId = [s \in Slots |-> IF s = "player1" THEN 1 ELSE 2]
  /\ sheepPositions = [s \in Slots |-> {}]
  /\ sheepReady = [s \in Slots |-> FALSE]
  /\ shotsReceived = [s \in Slots |-> <<>>]
  /\ sheepRemaining = [s \in Slots |-> MAX_SHEEP]
  /\ shotsFired = [s \in Slots |-> 0]
  /\ hits = [s \in Slots |-> 0]
  /\ misses = [s \in Slots |-> 0]
  /\ connected = [s \in Slots |-> TRUE]
  /\ turnTimer = FALSE
  /\ pauseTimer = FALSE
  /\ turnTimerNo = 0
  /\ graceTimers = [s \in Slots |-> 0]
  /\ playerToGame = {1, 2}
  /\ live = {1, 2}
  /\ nextSock = 3
  /\ inflight = <<>>
  /\ nCalls = 0
  /\ shotSeq = 0
  /\ applied = [i \in 1..(MaxCalls + 1) |-> 0]
  /\ gameEnds = <<>>
  /\ ret = NoRet

\* the module state of bsvService.ts after load
TxInit ==
  /\ spentTracker = [claimed |-> [o \in Outpoints |-> NoGame],
                     expiry |-> [o \in Outpoints |-> 0]]
  /\ usedTxids = {}
  /\ txidTimestamps = <<>>
  /\ now = 0
  /\ txCalls = <<>>
  /\ nTxCalls = 0
  /\ accepted = {}
  /\ txRet = NoTxRet
  /\ txObs = NoTxObs

\* no full-herd placement is under check
PlaceIdle ==
  /\ placement = {}
  /\ placeResult = "none"

NoPayout == [winnerPayout |-> -1, platformCut |-> -1]
PayIdle ==
  /\ payPot = 0
  /\ cutEnv = [set |-> FALSE, value |-> 0]
  /\ payout = NoPayout

\* both wallets hold enough for any payment of the game
Funded == balance = [s \in Slots |-> hitSats]

\* the games whose escrow the manager is asked about
EscrowGames == 1..NumGames

\* an environment that sets the master seed and the final wallet
EnvSet ==
  [ESCROW_MASTER_SEED |-> "seedA", ESCROW_WIF |-> "",
   FINAL_WALLET_ADDRESS |-> "final"]

\* no digest, no key and no address
NoDigest == [key |-> "", data |-> 0]
NoKey == [d |-> NoDigest]
NoAddress == [of |-> NoKey]

\* nothing derived yet, and no call of the escrow manager has returned
NoDerivation == [key |-> NoKey, address |-> NoAddress]
NoDerived ==
  [op |-> "none", gameId |-> 0, ok |-> FALSE, key |-> NoKey,
   address |-> NoAddress]
NoSettle ==
  [gameId |-> 0, winnerPayout |-> 0, platformCut |-> 0, utxos |-> <<>>,
   failAt |-> 0, success |-> FALSE, error |-> "none", broadcast |-> FALSE,
   inputs |-> 0, available |-> 0, feeEstimate |-> 0,
   adjWinner |-> 0, adjPlatform |-> 0, toWinner |-> 0, toPlatform |-> 0,
   change |-> 0]

\* the EscrowManager object as constructed: no seed, not initialized
EscrowNew ==
  /\ masterSeed = ""
  /\ initialized = FALSE

\* the escrow manager has not been used
EscrowCalm ==
  /\ evicted = {}
  /\ firstDerived = [g \in EscrowGames |-> NoDerivation]
  /\ derived = NoDerived
  /\ settled = NoSettle

EscIdle == processEnv = EnvSet /\ EscrowNew /\ EscrowCalm

\* a game manager with no game
RegistryNew ==
  registry = [games |-> <<>>, playerToGame |-> <<>>, made |-> 0,
              gone |-> {}]

AuxIdle == PlaceIdle /\ PayIdle /\ Funded /\ EscIdle /\ RegistryNew

Init == GameInit /\ TxInit /\ AuxIdle

\* ------------------------------------------------------------------------
\* Timers and the terminal transition
\* ------------------------------------------------------------------------
\* startTurnTimer that clears the old timer without arming a new one
startTurnTimer_clearsOnly == turnTimer' = FALSE /\ UNCHANGED turnTimerNo

\* startTurnTimer that leaves an armed timer running instead of replacing it
startTurnTimer_keepsArmed ==
  /\ turnTimer' = TRUE
  /\ turnTimerNo' = IF turnTimer THEN turnTimerNo ELSE turnTimerNo + 1

\* startTurnTimer: clearTurnTimer, then one armed timer for the game
startTurnTimer == turnTimer' = TRUE /\ turnTimerNo' = turnTimerNo + 1

\* clearTurnTimer that leaves an armed timer armed
clearTurnTimer_leavesArmed == turnTimer' = turnTimer /\ UNCHANGED turnTimerNo

\* clearTurnTimer
clearTurnTimer == turnTimer' = FALSE /\ UNCHANGED turnTimerNo

\* clearPauseTimer
clearPauseTimer == pauseTimer' = FALSE

\* endGame: the fields it assigns and the timers it clears
endGame(w, reason) ==
  /\ phase' = "gameover"
  /\ endReason' = reason
  /\ winner' = w
  /\ pendingShot' = NoShot
  /\ clearTurnTimer
  /\ clearPauseTimer

\* gameManager.onTurnTimeout, as installed by the socket layer: endGame once
\* more with reason timeout, then handleGameEnd with that result
onTurnTimeout(w) ==
  /\ endGame(w, "timeout")
  /\ handleGameEnd(GameOverResult(w, "timeout", pot))

\* ------------------------------------------------------------------------
\* submitSheepPositions (socket event player_ready)
\* ------------------------------------------------------------------------
\* SubmitError without the test for a player who has already submitted
SubmitError_noReadyTest(s, positions) ==
  IF ~getGameBySocket(s) THEN "Not in a game"
  ELSE IF phase # "setup" THEN "Not in setup"
  ELSE IF getSlot(s) = "none" THEN "Not a player"
  ELSE IF ~validateSheepPositions(positions) THEN "Invalid placement"
  ELSE ""

SubmitError(s, positions) ==
  IF ~getGameBySocket(s) THEN "Not in a game"
  ELSE IF phase # "setup" THEN "Not in setup"
  ELSE IF getSlot(s) = "none" THEN "Not a player"
  ELSE IF sheepReady[getSlot(s)] THEN "Already submitted"
  ELSE IF ~validateSheepPositions(positions) THEN "Invalid placement"
  ELSE ""

\* submitSheepPositions starting the game at the first accepted placement
submitSheepPositions_startsOnFirst(s, positions) ==
  LET err == SubmitError(s, positions)
      slot == getSlot(s)
  IN
  /\ UNCHANGED <<txVars, auxVars>>
  /\ s \in live
  /\ IF err # ""
     THEN /\ ret' = NoRet
          /\ UNCHANGED <<gameVars, timerVars>>
     ELSE /\ sheepPositions' = [sheepPositions EXCEPT ![slot] = positions]
          /\ sheepReady' = [sheepReady EXCEPT ![slot] = TRUE]
          /\ sheepRemaining' = [sheepRemaining EXCEPT ![slot] = MAX_SHEEP]
          /\ phase' = "playing"
          /\ startTurnTimer
          /\ ret' = NoRet
          /\ UNCHANGED <<currentTurn, pot, pendingShot, endReason, winner, pausedFor,
                         socketId, shotsReceived, shotsFired, hits, misses, connected,
                         pauseTimer, graceTimers>>
  /\ UNCHANGED <<sockVars, callVars, gameEnds>>

submitSheepPositions(s, positions) ==
  LET err == SubmitError(s, positions)
      slot == getSlot(s)
      bothReady == sheepReady[opponentSlot(slot)]
  IN
  /\ UNCHANGED <<txVars, auxVars>>
  /\ s \in live
  /\ IF err # ""
     THEN /\ ret' = NoRet
          /\ UNCHANGED <<gameVars, timerVars>>
     ELSE /\ sheepPositions' = [sheepPositions EXCEPT ![slot] = positions]
          /\ sheepReady' = [sheepReady EXCEPT ![slot] = TRUE]
          /\ sheepRemaining' = [sheepRemaining EXCEPT ![slot] = MAX_SHEEP]
          /\ IF bothReady
             THEN /\ phase' = "playing"
                  /\ startTurnTimer
             ELSE UNCHANGED <<phase, turnTimer, turnTimerNo>>
          /\ ret' = NoRet
          /\ UNCHANGED <<currentTurn, pot, pendingShot, endReason, winner, pausedFor,
                         socketId, shotsReceived, shotsFired, hits, misses, connected,
                         pauseTimer, graceTimers>>
  /\ UNCHANGED <<sockVars, callVars, gameEnds>>

\* ------------------------------------------------------------------------
\* fireShot (socket event fire_shot)
\* ------------------------------------------------------------------------
\* FireError without the pendingShot test
FireError_noPendingTest(s, cell) ==
  IF ~getGameBySocket(s) THEN "Not in a game"
  ELSE IF phase # "playing" THEN "Game not active"
  ELSE IF getSlot(s) = "none" THEN "Not a player"
  ELSE IF currentTurn # getSlot(s) THEN "Not your turn"
  ELSE IF ~isValidCell(cell[1], cell[2]) THEN "Invalid cell"
  ELSE IF cellKey(cell[1], cell[2]) \in DOMAIN shotsReceived[opponentSlot(getSlot(s))]
       THEN "Already shot there"
  ELSE ""

FireError(s, cell) ==
  IF ~getGameBySocket(s) THEN "Not in a game"
  ELSE IF phase # "playing" THEN "Game not active"
  ELSE IF pendingShot # NoShot THEN "Waiting for TX verification"
  ELSE IF getSlot(s) = "none" THEN "Not a player"
  ELSE IF currentTurn # getSlot(s) THEN "Not your turn"
  ELSE IF ~isValidCell(cell[1], cell[2]) THEN "Invalid cell"
  ELSE IF cellKey(cell[1], cell[2]) \in DOMAIN shotsReceived[opponentSlot(getSlot(s))]
       THEN "Already shot there"
  ELSE ""

\* NewPendingShot always naming the firer as the payer
NewPendingShot_firerPays(slot, cell) ==
  LET defSlot == opponentSlot(slot)
      isHit == cellKey(cell[1], cell[2]) \in sheepPositions[defSlot]
  IN [id |-> shotSeq + 1, shooter |-> slot, cell |-> cell, isHit |-> isHit,
      requiredAmount |-> IF isHit THEN hitSats ELSE missSats,
      requiredTo |-> IF isHit THEN address[slot] ELSE EscrowAddress,
      requiredFrom |-> slot]

\* the pendingShot fireShot installs (the resolution's payer, payee, amount)
NewPendingShot(slot, cell) ==
  LET defSlot == opponentSlot(slot)
      isHit == cellKey(cell[1], cell[2]) \in sheepPositions[defSlot]
  IN [id |-> shotSeq + 1, shooter |-> slot, cell |-> cell, isHit |-> isHit,
      requiredAmount |-> IF isHit THEN hitSats ELSE missSats,
      requiredTo |-> IF isHit THEN address[slot] ELSE EscrowAddress,
      requiredFrom |-> IF isHit THEN defSlot ELSE slot]

\* fireShot handing the turn to the defender as soon as the shot is fired
fireShot_switchesTurn(s, cell) ==
  LET err == FireError(s, cell) IN
  /\ UNCHANGED <<txVars, auxVars>>
  /\ s \in live
  /\ IF err # ""
     THEN /\ ret' = Ret("fireShot", FALSE, FALSE)
          /\ UNCHANGED <<gameVars, timerVars, shotSeq>>
     ELSE /\ pendingShot' = NewPendingShot(getSlot(s), cell)
          /\ shotSeq' = shotSeq + 1
          /\ currentTurn' = opponentSlot(getSlot(s))
          /\ clearTurnTimer
          /\ ret' = Ret("fireShot", TRUE, FALSE)
          /\ UNCHANGED <<phase, pot, endReason, winner, pausedFor,
                         socketId, sheepPositions, sheepReady, shotsReceived,
                         sheepRemaining, shotsFired, hits, misses, connected,
                         pauseTimer, graceTimers>>
  /\ UNCHANGED <<sockVars, inflight, nCalls, applied, gameEnds>>

fireShot(s, cell) ==
  LET err == FireError(s, cell) IN
  /\ UNCHANGED <<txVars, auxVars>>
  /\ s \in live
  /\ IF err # ""
     THEN /\ ret' = Ret("fireShot", FALSE, FALSE)
          /\ UNCHANGED <<gameVars, timerVars, shotSeq>>
     ELSE /\ pendingShot' = NewPendingShot(getSlot(s), cell)
          /\ shotSeq' = shotSeq + 1
          /\ clearTurnTimer
          /\ ret' = Ret("fireShot", TRUE, FALSE)
          /\ UNCHANGED <<phase, currentTurn, pot, endReason, winner, pausedFor,
                         socketId, sheepPositions, sheepReady, shotsReceived,
                         sheepRemaining, shotsFired, hits, misses, connected,
                         pauseTimer, graceTimers>>
  /\ UNCHANGED <<sockVars, inflight, nCalls, applied, gameEnds>>

\* ------------------------------------------------------------------------
\* verifyShot (socket events verify_payment / submit_payment)
\* ------------------------------------------------------------------------
VerifyError(s) ==
  IF ~getGameBySocket(s) \/ pendingShot = NoShot THEN "No pending shot"
  ELSE IF getSlot(s) # pendingShot.requiredFrom THEN "Wrong player verifying"
  ELSE ""

\* verifyShot up to the verifyFn await: the call keeps its socket and the
\* pendingShot object it read (ps)
verifyShotStart(s) ==
  LET err == VerifyError(s) IN
  /\ UNCHANGED <<txVars, auxVars>>
  /\ s \in live
  /\ IF err # ""
     THEN /\ ret' = Ret("verifyShot", FALSE, FALSE)
          /\ UNCHANGED <<inflight, nCalls>>
     ELSE /\ nCalls < MaxCalls
          /\ inflight' = Append(inflight, [sock |-> s, ps |-> pendingShot])
          /\ nCalls' = nCalls + 1
          /\ ret' = NoRet
  /\ UNCHANGED <<gameVars, timerVars, sockVars, shotSeq, applied, gameEnds>>

RemoveAt(seq, i) == SubSeq(seq, 1, i - 1) \o SubSeq(seq, i + 1, Len(seq))

\* verifyShotFailed dropping the pending shot on a failed verification
verifyShotFailed_dropsPending(i) ==
  /\ UNCHANGED <<txVars, auxVars>>
  /\ i \in 1..Len(inflight)
  /\ inflight' = RemoveAt(inflight, i)
  /\ ret' = Ret("verifyShot.verifyFn", FALSE, FALSE)
  /\ pendingShot' = NoShot
  /\ UNCHANGED <<phase, currentTurn, pot, endReason, winner, pausedFor,
                 socketId, sheepPositions, sheepReady, shotsReceived, sheepRemaining,
                 shotsFired, hits, misses, connected,
                 timerVars, sockVars, nCalls, shotSeq, applied, gameEnds>>

\* verifyShot resumed with verified = false: the error is returned
verifyShotFailed(i) ==
  /\ UNCHANGED <<txVars, auxVars>>
  /\ i \in 1..Len(inflight)
  /\ inflight' = RemoveAt(inflight, i)
  /\ ret' = Ret("verifyShot.verifyFn", FALSE, FALSE)
  /\ UNCHANGED <<gameVars, timerVars, sockVars, nCalls, shotSeq, applied, gameEnds>>

\* verifyShotVerified adding the paid amount to the pot for a hit as well
verifyShotVerified_hitFeedsPot(i) ==
  LET c == inflight[i]
      ps == c.ps
      defSlot == opponentSlot(ps.shooter)
      key == cellKey(ps.cell[1], ps.cell[2])
      newRemaining == IF ps.isHit THEN sheepRemaining[defSlot] - 1
                      ELSE sheepRemaining[defSlot]
      newPot == pot + ps.requiredAmount
      gameOver == newRemaining <= 0
  IN
  /\ UNCHANGED <<txVars, auxVars>>
  /\ i \in 1..Len(inflight)
  /\ inflight' = RemoveAt(inflight, i)
  /\ shotsReceived' = [shotsReceived EXCEPT ![defSlot] =
        [k \in DOMAIN shotsReceived[defSlot] \cup {key} |->
           IF k = key THEN (IF ps.isHit THEN "hit" ELSE "miss")
           ELSE shotsReceived[defSlot][k]]]
  /\ sheepRemaining' = [sheepRemaining EXCEPT ![defSlot] = newRemaining]
  /\ hits' = IF ps.isHit THEN [hits EXCEPT ![ps.shooter] = @ + 1] ELSE hits
  /\ misses' = IF ps.isHit THEN misses ELSE [misses EXCEPT ![ps.shooter] = @ + 1]
  /\ pot' = newPot
  /\ shotsFired' = [shotsFired EXCEPT ![ps.shooter] = @ + 1]
  /\ applied' = [applied EXCEPT ![ps.id] = @ + 1]
  /\ pausedFor' = IF phase = "paused" THEN "none" ELSE pausedFor
  /\ IF gameOver
     THEN /\ endGame(ps.shooter, "all_sheep_sunk")
          /\ UNCHANGED currentTurn
          /\ IF getGameBySocket(c.sock)
             THEN handleGameEnd(GameOverResult(ps.shooter, "all_sheep_sunk", newPot))
             ELSE UNCHANGED gameEnds
     ELSE /\ pendingShot' = NoShot
          /\ phase' = IF phase = "paused" THEN "playing" ELSE phase
          /\ pauseTimer' = IF phase = "paused" THEN FALSE ELSE pauseTimer
          /\ currentTurn' = defSlot
          /\ startTurnTimer
          /\ UNCHANGED <<endReason, winner, gameEnds>>
  /\ ret' = Ret("verifyShot", TRUE, TRUE)
  /\ UNCHANGED <<socketId, sheepPositions, sheepReady, connected, graceTimers,
                 sockVars, nCalls, shotSeq>>

\* verifyShot resumed with verified = true: ps is applied; then the rest of
\* handlePaymentSubmit, which calls handleGameEnd when the result says gameOver
verifyShotVerified(i) ==
  LET c == inflight[i]
      ps == c.ps
      defSlot == opponentSlot(ps.shooter)
      key == cellKey(ps.cell[1], ps.cell[2])
      newRemaining == IF ps.isHit THEN sheepRemaining[defSlot] - 1
                      ELSE sheepRemaining[defSlot]
      newPot == IF ps.isHit THEN pot ELSE pot + ps.requiredAmount
      gameOver == newRemaining <= 0
  IN
  /\ UNCHANGED <<txVars, auxVars>>
  /\ i \in 1..Len(inflight)
  /\ inflight' = RemoveAt(inflight, i)
  /\ shotsReceived' = [shotsReceived EXCEPT ![defSlot] =
        [k \in DOMAIN shotsReceived[defSlot] \cup {key} |->
           IF k = key THEN (IF ps.isHit THEN "hit" ELSE "miss")
           ELSE shotsReceived[defSlot][k]]]
  /\ sheepRemaining' = [sheepRemaining EXCEPT ![defSlot] = newRemaining]
  /\ hits' = IF ps.isHit THEN [hits EXCEPT ![ps.shooter] = @ + 1] ELSE hits
  /\ misses' = IF ps.isHit THEN misses ELSE [misses EXCEPT ![ps.shooter] = @ + 1]
  /\ pot' = newPot
  /\ shotsFired' = [shotsFired EXCEPT ![ps.shooter] = @ + 1]
  /\ applied' = [applied EXCEPT ![ps.id] = @ + 1]
  /\ pausedFor' = IF phase = "paused" THEN "none" ELSE pausedFor
  /\ IF gameOver
     THEN /\ endGame(ps.shooter, "all_sheep_sunk")
          /\ UNCHANGED currentTurn
          /\ IF getGameBySocket(c.sock)
             THEN handleGameEnd(GameOverResult(ps.shooter, "all_sheep_sunk", newPot))
             ELSE UNCHANGED gameEnds
     ELSE /\ pendingShot' = NoShot
          /\ phase' = IF phase = "paused" THEN "playing" ELSE phase
          /\ pauseTimer' = IF phase = "paused" THEN FALSE ELSE pauseTimer
          /\ currentTurn' = defSlot
          /\ startTurnTimer
          /\ UNCHANGED <<endReason, winner, gameEnds>>
  /\ ret' = Ret("verifyShot", TRUE, TRUE)
  /\ UNCHANGED <<socketId, sheepPositions, sheepReady, connected, graceTimers,
                 sockVars, nCalls, shotSeq>>

\* ------------------------------------------------------------------------
\* forfeit (socket event forfeit)
\* ------------------------------------------------------------------------
\* forfeit without the test for a finished game
forfeit_noGameoverTest(s) ==
  /\ UNCHANGED <<txVars, auxVars>>
  /\ s \in live
  /\ IF ~getGameBySocket(s) \/ getSlot(s) = "none"
     THEN /\ ret' = NoRet
          /\ UNCHANGED <<gameVars, timerVars, gameEnds>>
     ELSE /\ endGame(opponentSlot(getSlot(s)), "forfeit")
          /\ handleGameEnd(GameOverResult(opponentSlot(getSlot(s)), "forfeit", pot))
          /\ ret' = NoRet
          /\ UNCHANGED <<currentTurn, pot, pausedFor, socketId, sheepPositions,
                         sheepReady, shotsReceived, sheepRemaining, shotsFired,
                         hits, misses, connected, graceTimers>>
  /\ UNCHANGED <<sockVars, callVars>>

\* forfeit and the rest of the forfeit handler
forfeit(s) ==
  /\ UNCHANGED <<txVars, auxVars>>
  /\ s \in live
  /\ IF ~getGameBySocket(s) \/ phase = "gameover" \/ getSlot(s) = "none"
     THEN /\ ret' = NoRet
          /\ UNCHANGED <<gameVars, timerVars, gameEnds>>
     ELSE /\ endGame(opponentSlot(getSlot(s)), "forfeit")
          /\ handleGameEnd(GameOverResult(opponentSlot(getSlot(s)), "forfeit", pot))
          /\ ret' = NoRet
          /\ UNCHANGED <<currentTurn, pot, pausedFor, socketId, sheepPositions,
                         sheepReady, shotsReceived, sheepRemaining, shotsFired,
                         hits, misses, connected, graceTimers>>
  /\ UNCHANGED <<sockVars, callVars>>

\* ------------------------------------------------------------------------
\* handleDisconnect (socket event disconnect) and its grace timer
\* ------------------------------------------------------------------------
\* handleDisconnect starting a grace timer in setup as well
handleDisconnect_alwaysGrace(s) ==
  LET slot == getSlot(s) IN
  /\ UNCHANGED <<txVars, auxVars>>
  /\ s \in live
  /\ live' = live \ {s}
  /\ IF ~getGameBySocket(s) \/ phase = "gameover" \/ slot = "none"
     THEN /\ ret' = NoRet
          /\ UNCHANGED <<gameVars, timerVars, gameEnds>>
     ELSE /\ connected' = [connected EXCEPT ![slot] = FALSE]
          /\ IF FALSE
             THEN /\ endGame(opponentSlot(slot), "disconnect")
                  /\ handleGameEnd(GameOverResult(opponentSlot(slot), "disconnect", pot))
                  /\ ret' = NoRet
                  /\ UNCHANGED graceTimers
             ELSE /\ graceTimers' = [graceTimers EXCEPT ![slot] = @ + 1]
                  /\ ret' = NoRet
                  /\ UNCHANGED <<phase, endReason, winner, pendingShot, turnTimer,
                                 turnTimerNo,
                                 pauseTimer, gameEnds>>
          /\ UNCHANGED <<currentTurn, pot, pausedFor, socketId, sheepPositions,
                         sheepReady, shotsReceived, sheepRemaining, shotsFired,
                         hits, misses>>
  /\ UNCHANGED <<playerToGame, nextSock, callVars>>

\* handleDisconnect and the rest of the disconnect handler
handleDisconnect(s) ==
  LET slot == getSlot(s) IN
  /\ UNCHANGED <<txVars, auxVars>>
  /\ s \in live
  /\ live' = live \ {s}
  /\ IF ~getGameBySocket(s) \/ phase = "gameover" \/ slot = "none"
     THEN /\ ret' = NoRet
          /\ UNCHANGED <<gameVars, timerVars, gameEnds>>
     ELSE /\ connected' = [connected EXCEPT ![slot] = FALSE]
          /\ IF phase = "setup"
             THEN /\ endGame(opponentSlot(slot), "disconnect")
                  /\ handleGameEnd(GameOverResult(opponentSlot(slot), "disconnect", pot))
                  /\ ret' = NoRet
                  /\ UNCHANGED graceTimers
             ELSE /\ graceTimers' = [graceTimers EXCEPT ![slot] = @ + 1]
                  /\ ret' = NoRet
                  /\ UNCHANGED <<phase, endReason, winner, pendingShot, turnTimer,
                                 turnTimerNo,
                                 pauseTimer, gameEnds>>
          /\ UNCHANGED <<currentTurn, pot, pausedFor, socketId, sheepPositions,
                         sheepReady, shotsReceived, sheepRemaining, shotsFired,
                         hits, misses>>
  /\ UNCHANGED <<playerToGame, nextSock, callVars>>

\* the callback of the grace timer handleDisconnect started for slot
graceTimeout(slot) ==
  /\ UNCHANGED <<txVars, auxVars>>
  /\ graceTimers[slot] > 0
  /\ graceTimers' = [graceTimers EXCEPT ![slot] = @ - 1]
  /\ IF phase # "gameover" /\ ~connected[slot]
     THEN \* endGame(g, winner, 'disconnect'), overwritten by onTurnTimeout
          \* in the same run of the callback
          /\ onTurnTimeout(opponentSlot(slot))
          /\ ret' = NoRet
     ELSE /\ ret' = NoRet
          /\ UNCHANGED <<phase, endReason, winner, pendingShot, turnTimer,
                                 turnTimerNo,
                         pauseTimer, gameEnds>>
  /\ UNCHANGED <<currentTurn, pot, pausedFor, socketId, sheepPositions, sheepReady,
                 shotsReceived, sheepRemaining, shotsFired, hits, misses, connected,
                 sockVars, callVars>>

\* ------------------------------------------------------------------------
\* handleReconnect (socket event reconnect_game) from a new connection s
\* ------------------------------------------------------------------------
slotOfAddress(addr) ==
  IF address["player1"] = addr THEN "player1"
  ELSE IF address["player2"] = addr THEN "player2"
  ELSE "none"

\* handleReconnect that also forgets the pendingShot
handleReconnect_dropsPendingShot(s, knownGame, addr) ==
  LET slot == slotOfAddress(addr) IN
  /\ UNCHANGED <<txVars, auxVars>>
  /\ s = nextSock
  /\ s <= NumSockets
  /\ pendingShot' = NoShot
  /\ UNCHANGED <<phase, currentTurn, pot, endReason, winner, pausedFor,
                 sheepPositions, sheepReady, shotsReceived, sheepRemaining,
                 shotsFired, hits, misses, timerVars, callVars, gameEnds>>
  /\ IF ~knownGame
     THEN /\ ret' = ReconnectResult(FALSE, NoPayment)
          /\ UNCHANGED <<socketId, connected, sockVars>>
     ELSE IF slot = "none"
     THEN /\ ret' = ReconnectResult(FALSE, NoPayment)
          /\ UNCHANGED <<socketId, connected, sockVars>>
     ELSE /\ connected' = [connected EXCEPT ![slot] = TRUE]
          /\ socketId' = [socketId EXCEPT ![slot] = s]
          /\ playerToGame' = playerToGame \cup {s}
          \* the socket the slot was bound to is no longer a player's socket
          /\ live' = (live \ {socketId[slot]}) \cup {s}
          /\ nextSock' = nextSock + 1
          \* reconnect_result is built from the game after handleReconnect
          /\ ret' = ReconnectResult(TRUE, pendingPaymentOf(slot)')

\* handleReconnect and the reconnect_result built from its result
handleReconnect(s, knownGame, addr) ==
  LET slot == slotOfAddress(addr) IN
  /\ UNCHANGED <<txVars, auxVars>>
  /\ s = nextSock
  /\ s <= NumSockets
  /\ UNCHANGED <<phase, currentTurn, pot, pendingShot, endReason, winner, pausedFor,
                 sheepPositions, sheepReady, shotsReceived, sheepRemaining,
                 shotsFired, hits, misses, timerVars, callVars, gameEnds>>
  /\ IF ~knownGame
     THEN /\ ret' = ReconnectResult(FALSE, NoPayment)
          /\ UNCHANGED <<socketId, connected, sockVars>>
     ELSE IF slot = "none"
     THEN /\ ret' = ReconnectResult(FALSE, NoPayment)
          /\ UNCHANGED <<socketId, connected, sockVars>>
     ELSE /\ connected' = [connected EXCEPT ![slot] = TRUE]
          /\ socketId' = [socketId EXCEPT ![slot] = s]
          /\ playerToGame' = playerToGame \cup {s}
          \* the socket the slot was bound to is no longer a player's socket
          /\ live' = (live \ {socketId[slot]}) \cup {s}
          /\ nextSock' = nextSock + 1
          \* reconnect_result is built from the game after handleReconnect
          /\ ret' = ReconnectResult(TRUE, pendingPaymentOf(slot)')

\* ------------------------------------------------------------------------
\* the callback of the turn timer
\* ------------------------------------------------------------------------
turnTimeout ==
  /\ UNCHANGED <<txVars, auxVars>>
  /\ turnTimer
  /\ IF phase # "playing"
     THEN /\ turnTimer' = FALSE
          /\ UNCHANGED turnTimerNo
          /\ ret' = NoRet
          /\ UNCHANGED <<phase, endReason, winner, pendingShot, pauseTimer, gameEnds>>
     ELSE \* endGame(game, winner, 'timeout'), then onTurnTimeout
          /\ onTurnTimeout(opponentSlot(currentTurn))
          /\ ret' = NoRet
  /\ UNCHANGED <<currentTurn, pot, pausedFor, socketId, sheepPositions, sheepReady,
                 shotsReceived, sheepRemaining, shotsFired, hits, misses, connected,
                 graceTimers, sockVars, callVars>>

Next ==
  \/ \E s \in Sockets, positions \in SUBSET InputCells : submitSheepPositions(s, positions)
  \/ \E s \in Sockets, cell \in InputCells : fireShot(s, cell)
  \/ \E s \in Sockets : verifyShotStart(s)
  \/ \E i \in 1..MaxCalls : verifyShotFailed(i)
  \/ \E i \in 1..MaxCalls : verifyShotVerified(i)
  \/ \E s \in Sockets : forfeit(s)
  \/ \E s \in Sockets : handleDisconnect(s)
  \/ \E slot \in Slots : graceTimeout(slot)
  \/ \E s \in Sockets, knownGame \in BOOLEAN, addr \in Addresses :
        handleReconnect(s, knownGame, addr)
  \/ turnTimeout

Spec == Init /\ [][Next]_vars

\* ------------------------------------------------------------------------
\* Play with herds of more than one sheep
\* ------------------------------------------------------------------------
\* The state in which play starts: both placements have been accepted, for a
\* herd of h sheep each, the phase is playing and the turn timer is armed.
PlayStart(herds) ==
  /\ phase = "playing"
  /\ currentTurn \in Slots
  /\ pot = 0
  /\ pendingShot = NoShot
  /\ endReason = "none"
  /\ winner = "none"
  /\ pausedFor = "none"
  /\ socketId = [s \in Slots |-> IF s = "player1" THEN 1 ELSE 2]
  /\ \E h \in herds :
       /\ sheepPositions \in [Slots -> {S \in SUBSET GridCells : Cardinality(S) = h}]
       /\ sheepRemaining = [s \in Slots |-> h]
  /\ sheepReady = [s \in Slots |-> TRUE]
  /\ shotsReceived = [s \in Slots |-> <<>>]
  /\ shotsFired = [s \in Slots |-> 0]
  /\ hits = [s \in Slots |-> 0]
  /\ misses = [s \in Slots |-> 0]
  /\ connected = [s \in Slots |-> TRUE]
  /\ turnTimer = TRUE
  /\ pauseTimer = FALSE
  /\ turnTimerNo = 1
  /\ graceTimers = [s \in Slots |-> 0]
  /\ playerToGame = {1, 2}
  /\ live = {1, 2}
  /\ nextSock = 3
  /\ inflight = <<>>
  /\ nCalls = 0
  /\ shotSeq = 0
  /\ applied = [i \in 1..(MaxCalls + 1) |-> 0]
  /\ gameEnds = <<>>
  /\ ret = NoRet

InitPlay == PlayStart(1..NumCells) /\ TxInit /\ AuxIdle

SpecPlay == InitPlay /\ [][Next]_vars

\* ------------------------------------------------------------------------
\* Play with wallets that may be short of funds
\* ------------------------------------------------------------------------
\* checkPlayerBalance: sufficient when the balance covers the required amount
checkPlayerBalance(slot, requiredSats) == balance[slot] >= requiredSats

\* play starts with player1 to move, whose wallet is either empty or covers
\* any payment; no handler of the game reads the balances
InitFunds ==
  /\ PlayStart({MAX_SHEEP})
  /\ currentTurn = "player1"
  /\ TxInit
  /\ PlaceIdle
  /\ PayIdle
  /\ EscIdle
  /\ RegistryNew
  /\ balance \in {[s \in Slots |-> IF s = "player1" THEN b ELSE hitSats] : b \in {0, hitSats}}

SpecFunds == InitFunds /\ [][Next]_vars

\* ------------------------------------------------------------------------
\* The pause for funds, entered through pauseGame
\* ------------------------------------------------------------------------
\* pauseGame(game, forSlot, amountNeeded, reason).  The method has no caller
\* in the program; here it is called in playing for the payer of the installed
\* pendingShot when checkPlayerBalance finds the balance short, which is the
\* call its arguments and the onFundsNeeded announcement are written for.
pauseGame(forSlot) ==
  /\ phase = "playing"
  /\ pendingShot # NoShot
  /\ forSlot = pendingShot.requiredFrom
  /\ ~checkPlayerBalance(forSlot, pendingShot.requiredAmount)
  /\ phase' = "paused"
  /\ pausedFor' = forSlot
  /\ clearTurnTimer
  /\ pauseTimer' = TRUE
  /\ ret' = NoRet
  /\ UNCHANGED <<currentTurn, pot, pendingShot, endReason, winner, socketId,
                 sheepPositions, sheepReady, shotsReceived, sheepRemaining,
                 shotsFired, hits, misses, connected, graceTimers, sockVars,
                 callVars, gameEnds>>
  /\ UNCHANGED <<txVars, auxVars>>

\* the callback of the pause timer: endGame for insufficient funds, then
\* onPauseTimeout, which calls endGame again and handleGameEnd
pauseTimeout ==
  /\ pauseTimer
  /\ IF phase # "paused"
     THEN /\ pauseTimer' = FALSE
          /\ UNCHANGED <<phase, endReason, winner, pendingShot, turnTimer, turnTimerNo, gameEnds>>
     ELSE /\ endGame(opponentSlot(pausedFor), "insufficient_funds")
          /\ handleGameEnd(GameOverResult(opponentSlot(pausedFor), "insufficient_funds", pot))
  /\ ret' = NoRet
  /\ UNCHANGED <<currentTurn, pot, pausedFor, socketId, sheepPositions, sheepReady,
                 shotsReceived, sheepRemaining, shotsFired, hits, misses, connected,
                 graceTimers, sockVars, callVars>>
  /\ UNCHANGED <<txVars, auxVars>>

\* the player's wallet receives funds that cover any payment of the game
addFunds(slot) ==
  /\ ~checkPlayerBalance(slot, hitSats)
  /\ balance' = [balance EXCEPT ![slot] = hitSats]
  /\ ret' = NoRet
  /\ UNCHANGED <<gameVars, timerVars, sockVars, callVars, gameEnds>>
  /\ UNCHANGED <<txVars, plVars, payVars, escVars, registry>>

\* what the funds_added handler announced: payment_required with the pending
\* amount and destination (and game_resumed), or the error
FundsResult(ok, payment) ==
  [op |-> "funds_added", success |-> ok, applied |-> FALSE, pendingPayment |-> payment]

\* the funds_added handler (the balance is fetched and the messages are sent
\* in one step: the handler writes nothing to the game)
fundsAdded(s) ==
  LET slot == getSlot(s) IN
  /\ s \in live
  /\ IF ~getGameBySocket(s) \/ phase # "paused" \/ slot = "none" \/ pausedFor # slot
        \/ pendingShot = NoShot
     THEN ret' = NoRet
     ELSE IF balance[slot] < pendingShot.requiredAmount
     THEN ret' = FundsResult(FALSE, NoPayment)
     ELSE ret' = FundsResult(TRUE, [amount |-> pendingShot.requiredAmount,
                                   toAddress |-> pendingShot.requiredTo])
  /\ UNCHANGED <<gameVars, timerVars, sockVars, callVars, gameEnds>>
  /\ UNCHANGED <<txVars, auxVars>>

InitPause == InitFunds

\* play between two connected players
NextPause ==
  \/ \E s \in Sockets, cell \in InputCells : fireShot(s, cell)
  \/ \E s \in Sockets : verifyShotStart(s)
  \/ \E i \in 1..MaxCalls : verifyShotFailed(i)
  \/ \E i \in 1..MaxCalls : verifyShotVerified(i)
  \/ \E s \in Sockets : forfeit(s)
  \/ turnTimeout
  \/ \E forSlot \in Slots : pauseGame(forSlot)
  \/ pauseTimeout
  \/ \E slot \in Slots : addFunds(slot)
  \/ \E s \in Sockets : fundsAdded(s)

SpecPause == InitPause /\ [][NextPause]_vars

\* ========================================================================
\* Payment verification: SpentUTXOTracker, usedTxids, verifyAndBroadcastTx
\* ========================================================================
\* SpentUTXOTracker.pruneExpired at time t: a claim is dropped once t > expiry
pruneExpired(tr, t) ==
  [claimed |-> [o \in Outpoints |->
                  IF tr.claimed[o] # NoGame /\ t > tr.expiry[o]
                  THEN NoGame ELSE tr.claimed[o]],
   expiry |-> [o \in Outpoints |->
                  IF tr.claimed[o] # NoGame /\ t > tr.expiry[o]
                  THEN 0 ELSE tr.expiry[o]]]

\* claim without the test for another game's claim
claim_ignoresHolder(tr, o, gameId, t) ==
  LET p == pruneExpired(tr, t) IN
  [ok |-> TRUE,
   tr |-> [claimed |-> [p.claimed EXCEPT ![o] = gameId],
           expiry |-> [p.expiry EXCEPT ![o] = t + EXPIRY_MS]]]

\* SpentUTXOTracker.claim at time t: the value returned and the tracker after
claim(tr, o, gameId, t) ==
  LET p == pruneExpired(tr, t)
      existingGame == p.claimed[o]
  IN IF existingGame # NoGame /\ existingGame # gameId
     THEN [ok |-> FALSE, tr |-> p]
     ELSE [ok |-> TRUE,
           tr |-> [claimed |-> [p.claimed EXCEPT ![o] = gameId],
                   expiry |-> [p.expiry EXCEPT ![o] = t + EXPIRY_MS]]]

\* SpentUTXOTracker.release: deletes the claim, whoever holds it
release(tr, o) ==
  [claimed |-> [tr.claimed EXCEPT ![o] = NoGame],
   expiry |-> [tr.expiry EXCEPT ![o] = 0]]

\* for (const op of inputOutpoints) spentTracker.release(op.txid, op.vout)
RECURSIVE releaseAll(_, _, _)
releaseAll(tr, ops, k) ==
  IF k > Len(ops) THEN tr ELSE releaseAll(release(tr, ops[k]), ops, k + 1)

\* step 4 of verifyAndBroadcastTx from input k on: claims the inputs in order
\* and stops at the first claim that fails, returning as it is then
RECURSIVE claimInputs(_, _, _, _, _)
claimInputs(inputs, k, tr, gameId, t) ==
  IF k > Len(inputs)
  THEN [ok |-> TRUE, tr |-> tr, inputOutpoints |-> inputs]
  ELSE LET r == claim(tr, inputs[k], gameId, t) IN
       IF ~r.ok
       THEN [ok |-> FALSE, tr |-> r.tr, inputOutpoints |-> SubSeq(inputs, 1, k - 1)]
       ELSE claimInputs(inputs, k + 1, r.tr, gameId, t)

\* the game that holds an unexpired claim on o at time t, or NoGame
Holder(tr, o, t) == pruneExpired(tr, t).claimed[o]

\* step 3: the sum of the outputs locked to expectedTo, from output k on
RECURSIVE paymentAmountFrom(_, _, _)
paymentAmountFrom(outputs, expectedTo, k) ==
  IF k > Len(outputs) THEN 0
  ELSE (IF outputs[k].to = expectedTo THEN outputs[k].satoshis ELSE 0)
         + paymentAmountFrom(outputs, expectedTo, k + 1)

paymentAmountOf(tx, expectedTo) == paymentAmountFrom(tx.outputs, expectedTo, 1)

\* recordTxid at time now
recordTxid(txid) ==
  LET ts1 == [id \in (DOMAIN txidTimestamps) \cup {txid} |->
                IF id = txid THEN now ELSE txidTimestamps[id]]
      cutoff == now - TXID_TTL
      old == {id \in DOMAIN ts1 : ts1[id] < cutoff}
  IN IF Cardinality(DOMAIN ts1) % PruneEvery = 0
     THEN /\ usedTxids' = (usedTxids \cup {txid}) \ old
          /\ txidTimestamps' = [id \in (DOMAIN ts1) \ old |-> ts1[id]]
     ELSE /\ usedTxids' = usedTxids \cup {txid}
          /\ txidTimestamps' = ts1

\* TxGateError without the test of the paid amount
TxGateError_noAmountGate(rawTxHex, expectedTo, expectedMin) ==
  IF rawTxHex = BadHex THEN "Invalid hex"
  ELSE IF rawTxHex \in usedTxids THEN "TXID already used (replay rejected)"
  ELSE ""

\* steps 1 to 3 of verifyAndBroadcastTx: the error of the gate that rejects
\* the call before any input is claimed, "" if none does
TxGateError(rawTxHex, expectedTo, expectedMin) ==
  IF rawTxHex = BadHex THEN "Invalid hex"
  ELSE IF rawTxHex \in usedTxids THEN "TXID already used (replay rejected)"
  ELSE IF paymentAmountOf(rawTxHex, expectedTo) < expectedMin THEN "Insufficient payment"
  ELSE ""

\* verifyAndBroadcastTx from its entry to its first await (tx.verify()), or to
\* its return if a gate or a claim rejects the transaction
verifyAndBroadcastTx(rawTxHex, expectedTo, expectedMin, gameId, payerAddress) ==
  LET err == TxGateError(rawTxHex, expectedTo, expectedMin)
      paymentAmount == paymentAmountOf(rawTxHex, expectedTo)
      cl == claimInputs(rawTxHex.inputs, 1, spentTracker, gameId, now)
      newly == {cl.inputOutpoints[k] : k \in 1..Len(cl.inputOutpoints)}
                 \ {o \in Outpoints : Holder(spentTracker, o, now) = gameId}
      afterAccept == rawTxHex \in accepted
  IN
  /\ UNCHANGED <<gmVars, auxVars, usedTxids, txidTimestamps, now, accepted>>
  /\ IF err # ""
     THEN /\ txRet' = TxResult(FALSE,
                        IF err = "Insufficient payment" THEN paymentAmount ELSE 0, err)
          /\ txObs' = TxObs(gameId, afterAccept, FALSE, {})
          /\ UNCHANGED <<spentTracker, txCalls, nTxCalls>>
     ELSE IF ~cl.ok
     THEN \* returns with the claims taken so far still in the tracker
          /\ spentTracker' = cl.tr
          /\ txRet' = TxResult(FALSE, 0, "UTXO already claimed by another game")
          /\ txObs' = TxObs(gameId, afterAccept, FALSE,
                            {o \in newly : cl.tr.claimed[o] = gameId})
          /\ UNCHANGED <<txCalls, nTxCalls>>
     ELSE /\ nTxCalls < MaxTxCalls
          /\ spentTracker' = cl.tr
          /\ txCalls' = Append(txCalls,
                [pc |-> "verify", rawTxHex |-> rawTxHex, gameId |-> gameId,
                 payerAddress |-> payerAddress,
                 paymentAmount |-> paymentAmount,
                 inputOutpoints |-> cl.inputOutpoints, newly |-> newly,
                 afterAccept |-> afterAccept, rivalOk |-> FALSE])
          /\ nTxCalls' = nTxCalls + 1
          /\ UNCHANGED <<txRet, txObs>>

\* the return of call i with verified = false after its first await: the
\* outpoints of inputOutpoints are released first
txFail(i, amount, error) ==
  LET c == txCalls[i]
      tr == releaseAll(spentTracker, c.inputOutpoints, 1)
  IN /\ spentTracker' = tr
     /\ txCalls' = RemoveAt(txCalls, i)
     /\ txRet' = TxResult(FALSE, amount, error)
     /\ txObs' = TxObs(c.gameId, c.afterAccept, c.rivalOk,
                       {o \in c.newly : tr.claimed[o] = c.gameId})
     /\ UNCHANGED <<usedTxids, txidTimestamps, accepted>>

\* step 5: tx.verify() settles for call i; it resolves to true, resolves to
\* something else, or throws (then the call goes on to broadcast)
verifyDone(i, outcome) ==
  /\ i \in 1..Len(txCalls)
  /\ txCalls[i].pc = "verify"
  /\ UNCHANGED <<gmVars, auxVars, now, nTxCalls>>
  /\ IF outcome = "false"
     THEN txFail(i, 0, "TX signature verification failed")
     ELSE /\ txCalls' = [txCalls EXCEPT ![i].pc = "broadcast"]
          /\ UNCHANGED <<spentTracker, usedTxids, txidTimestamps, accepted,
                         txRet, txObs>>

\* steps 6 and 7: broadcastRawTx settles for call i
broadcastDone(i, success) ==
  LET c == txCalls[i] IN
  /\ i \in 1..Len(txCalls)
  /\ txCalls[i].pc = "broadcast"
  /\ UNCHANGED <<gmVars, auxVars, now, nTxCalls>>
  /\ IF ~success
     THEN txFail(i, c.paymentAmount, "Broadcast failed")
     ELSE /\ recordTxid(c.rawTxHex)
          /\ accepted' = accepted \cup {c.rawTxHex}
          /\ txCalls' = RemoveAt([k \in 1..Len(txCalls) |->
                                    IF txCalls[k].rawTxHex = c.rawTxHex
                                         /\ txCalls[k].gameId # c.gameId
                                    THEN [txCalls[k] EXCEPT !.rivalOk = TRUE]
                                    ELSE txCalls[k]], i)
          /\ txRet' = TxResult(TRUE, c.paymentAmount, "")
          /\ txObs' = TxObs(c.gameId, c.afterAccept, c.rivalOk, {})
          /\ UNCHANGED spentTracker

\* Date.now() as the handlers read it: the clock is read at multiples of
\* TickStep, and a call that has started returns before the next reading
TickStep == 3 * EXPIRY_MS

Tick ==
  /\ txCalls = <<>>
  /\ now + TickStep <= MaxTime
  /\ now' = now + TickStep
  /\ UNCHANGED <<gmVars, auxVars, spentTracker, usedTxids, txidTimestamps, txCalls,
                 nTxCalls, accepted, txRet, txObs>>

InitTx == GameInit /\ currentTurn = "player1" /\ TxInit /\ AuxIdle

NextTx ==
  \/ \E rawTxHex \in Txs \cup {BadHex}, expectedTo \in {EscrowAddress, "addr1"},
        expectedMin \in {missSats}, gameId \in Games, payerAddress \in {"addr1"} :
        verifyAndBroadcastTx(rawTxHex, expectedTo, expectedMin, gameId, payerAddress)
  \/ \E i \in 1..MaxTxCalls, outcome \in {"true", "false", "throws"} :
        verifyDone(i, outcome)
  \/ \E i \in 1..MaxTxCalls, success \in BOOLEAN : broadcastDone(i, success)
  \/ Tick

SpecTx == InitTx /\ [][NextTx]_vars

\* payment verification for the calls of one game
NextGate ==
  \/ \E rawTxHex \in Txs \cup {BadHex}, expectedTo \in {EscrowAddress, "addr1"},
        expectedMin \in {missSats}, payerAddress \in {"addr1"} :
        verifyAndBroadcastTx(rawTxHex, expectedTo, expectedMin, 1, payerAddress)
  \/ \E i \in 1..MaxTxCalls, outcome \in {"true", "false", "throws"} :
        verifyDone(i, outcome)
  \/ \E i \in 1..MaxTxCalls, success \in BOOLEAN : broadcastDone(i, success)
  \/ Tick

SpecGate == InitTx /\ [][NextGate]_vars

\* ========================================================================
\* Placement of the full herd
\* ========================================================================
\* lines 205 to 209 of submitSheepPositions for a player in setup who has not
\* submitted yet, with the herd of the program: the placement is stored and
\* the player made ready if validateSheepPositions finds it valid
placeHerd ==
  /\ placeResult = "none"
  /\ placeResult' = IF validatePositions(placement, FullHerd)
                    THEN "accepted" ELSE "rejected"
  /\ UNCHANGED <<gmVars, txVars, placement, payVars, balance, escVars, registry>>

InitPlace ==
  /\ GameInit /\ currentTurn = "player1"
  /\ TxInit
  /\ placement \in PlaceInputs
  /\ placeResult = "none"
  /\ PayIdle
  /\ Funded
  /\ EscIdle
  /\ RegistryNew

NextPlace == placeHerd

SpecPlace == InitPlace /\ [][NextPlace]_vars

\* ========================================================================
\* endGame's payout split (part_001, endGame)
\* ========================================================================
\* the values of PLATFORM_CUT_PERCENT: not set, or an integer
EnvUnset == [set |-> FALSE, value |-> 0]
EnvInt(v) == [set |-> TRUE, value |-> v]
CutInputs == {EnvUnset} \cup {EnvInt(v) : v \in -1..101}

\* Math.min(100, Math.max(0, parseInt(env || '50') || 50)): an unset variable
\* reads as '50', and a parsed 0 is falsy and is replaced by 50 as well
cutPctOf(env) ==
  LET parsed == IF env.set THEN env.value ELSE 50
      orDefault == IF parsed = 0 THEN 50 ELSE parsed
      atLeast0 == IF orDefault < 0 THEN 0 ELSE orDefault
  IN IF atLeast0 > 100 THEN 100 ELSE atLeast0

\* The pairs <<cutPct, pot>> with pot <= 40 for which the double
\* pot * (1 - cutPct / 100) lies below the integer that the real product
\* equals (1 - 0.8 is 0.19999999999999996, so 5 * (1 - 0.8) is below 1).
DoubleBelow ==
  {<<56, 25>>, <<68, 25>>, <<80, 5>>, <<80, 10>>, <<80, 15>>, <<80, 20>>,
   <<80, 25>>, <<80, 30>>, <<80, 35>>, <<80, 40>>, <<90, 10>>, <<90, 20>>,
   <<90, 30>>, <<90, 40>>, <<92, 25>>}

\* Math.floor(game.pot * (1 - cutPct / 100)) in double arithmetic
winnerPayoutAt(p, cutPct) ==
  LET real == (p * (100 - cutPct)) \div 100
  IN IF <<cutPct, p>> \in DoubleBelow THEN real - 1 ELSE real

\* lines 421 to 423 of endGame for a game whose pot is payPot
endGameSplit ==
  /\ payout = NoPayout
  /\ payout' = [winnerPayout |-> winnerPayoutAt(payPot, cutPctOf(cutEnv)),
                platformCut |-> payPot - winnerPayoutAt(payPot, cutPctOf(cutEnv))]
  /\ UNCHANGED <<gmVars, txVars, plVars, payPot, cutEnv, balance, escVars, registry>>

InitPayout ==
  /\ GameInit /\ currentTurn = "player1"
  /\ TxInit
  /\ PlaceIdle
  /\ payPot \in 0..MaxPot
  /\ cutEnv \in CutInputs
  /\ payout = NoPayout
  /\ Funded
  /\ EscIdle
  /\ RegistryNew

NextPayout == endGameSplit

SpecPayout == InitPayout /\ [][NextPayout]_vars

\* ========================================================================
\* The escrow manager (bsvService.ts, EscrowManager)
\* ========================================================================
\* DUST_LIMIT
DUST_LIMIT == 546

\* createHmac('sha256', key).update(data).digest('hex'): the digest is a
\* value that the key and the data determine
Hmac(key, data) == [key |-> key, data |-> data]
\* PrivateKey.fromString(keyHex, 16)
PrivateKeyOf(keyHex) == [d |-> keyHex]
\* pk.toPublicKey().toAddress(BSV_NETWORK)
AddressOf(pk) == [of |-> pk]

\* the environments of the server process: each of the two seed variables
\* and the final wallet is set or not
EscrowEnvs ==
  [ESCROW_MASTER_SEED : {"", "seedA"}, ESCROW_WIF : {"", "seedB"},
   FINAL_WALLET_ADDRESS : {"", "final"}]

\* init(): the seed is read from the environment; without a seed the call
\* returns false and leaves the initialized flag as it was
escrowInit ==
  LET seed == IF processEnv.ESCROW_MASTER_SEED # ""
              THEN processEnv.ESCROW_MASTER_SEED
              ELSE processEnv.ESCROW_WIF
  IN /\ masterSeed' = seed
     /\ initialized' = IF seed = "" THEN initialized ELSE TRUE
     /\ derived' = [NoDerived EXCEPT !.op = "init", !.ok = (seed # "")]
     /\ UNCHANGED <<gmVars, txVars, plVars, payVars, balance, registry>>
     /\ UNCHANGED <<processEnv, evicted, firstDerived, settled>>

\* deriveGameKey with a key index that moves when games are deleted
deriveGameKey_shifted(gameId) ==
  PrivateKeyOf(Hmac(masterSeed, gameId + Cardinality(evicted)))

\* deriveGameKey(gameId) of an initialized manager
deriveGameKey(gameId) == PrivateKeyOf(Hmac(masterSeed, gameId))

\* getGameAddress(gameId) of an initialized manager
getGameAddress(gameId) == AddressOf(deriveGameKey(gameId))

\* the key and address of a game as they were derived for it the first time
noteDerived(gameId) ==
  firstDerived' =
    IF firstDerived[gameId] = NoDerivation
    THEN [firstDerived EXCEPT ![gameId] =
            [key |-> deriveGameKey(gameId), address |-> getGameAddress(gameId)]]
    ELSE firstDerived

\* a call of deriveGameKey: it throws unless the manager is initialized
callDeriveGameKey(gameId) ==
  /\ IF ~initialized
     THEN /\ derived' = [NoDerived EXCEPT !.op = "deriveGameKey", !.gameId = gameId]
          /\ UNCHANGED firstDerived
     ELSE /\ derived' = [op |-> "deriveGameKey", gameId |-> gameId, ok |-> TRUE,
                         key |-> deriveGameKey(gameId), address |-> NoAddress]
          /\ noteDerived(gameId)
  /\ UNCHANGED <<gmVars, txVars, plVars, payVars, balance, registry>>
  /\ UNCHANGED <<processEnv, masterSeed, initialized, evicted, settled>>

\* a call of getGameAddress (match_found, fire_shot, the escrow route of the
\* API): deriveGameKey, then the address of the key
callGetGameAddress(gameId) ==
  /\ IF ~initialized
     THEN /\ derived' = [NoDerived EXCEPT !.op = "getGameAddress", !.gameId = gameId]
          /\ UNCHANGED firstDerived
     ELSE /\ derived' = [op |-> "getGameAddress", gameId |-> gameId, ok |-> TRUE,
                         key |-> NoKey, address |-> getGameAddress(gameId)]
          /\ noteDerived(gameId)
  /\ UNCHANGED <<gmVars, txVars, plVars, payVars, balance, registry>>
  /\ UNCHANGED <<processEnv, masterSeed, initialized, evicted, settled>>

\* the satoshis of the unspent outputs fetchUTXOs reports for an escrow
\* address: the payments of misses and hits that reached it
UtxoValues == {missSats, hitSats}
UtxoLists == UNION {[1..n -> UtxoValues] : n \in 0..MaxUtxos}

RECURSIVE SumSats(_)
SumSats(utxos) ==
  IF utxos = <<>> THEN 0 ELSE Head(utxos) + SumSats(Tail(utxos))

\* estimatedSize and feeEstimate of settle: 0.15 satoshis a byte, rounded up,
\* and 500 at least (the size is never a multiple of 20, so the product is
\* never an integer and Math.ceil of the double is the ceiling of the real)
estimatedSize(n) == n * 150 + 4 * 34 + 10
feeEstimate(n) ==
  LET byRate == (estimatedSize(n) * 15 + 99) \div 100
  IN IF byRate > 500 THEN byRate ELSE 500

\* The triples <<winnerPayout, totalExpected, distributable>>, among the
\* results and escrow balances used here, for which the double
\* distributable * (winnerPayout / totalExpected) lies below the integer that
\* the real product equals (840 / 1200 is 0.7 and 700 * 0.7 is
\* 489.99999999999994).
SplitBelow == {<<840, 1200, 700>>, <<840, 1200, 1300>>}

\* Math.floor(distributable * winnerShare) in double arithmetic, winnerShare
\* being winnerPayout / totalExpected, or 0.5 when nothing was expected
adjWinnerAt(distributable, winnerPayout, platformCut) ==
  LET totalExpected == winnerPayout + platformCut
      real == IF totalExpected > 0
              THEN (distributable * winnerPayout) \div totalExpected
              ELSE distributable \div 2
  IN IF <<winnerPayout, totalExpected, distributable>> \in SplitBelow
     THEN real - 1 ELSE real

\* the returns of settle and its catch, one after the other, that never
\* return for want of funds or of a source transaction
settleError_noFundsGate(n, distributable, failAt, thrown, broadcastOk) ==
  CASE ~initialized -> "EscrowManager not initialized"
    [] processEnv.FINAL_WALLET_ADDRESS = "" -> "FINAL_WALLET_ADDRESS not set"
    [] thrown -> "thrown"
    [] ~broadcastOk -> "Settlement broadcast failed"
    [] OTHER -> "none"

\* the returns of settle and its catch, one after the other: the error
\* returned, "none" for the successful return
settleError(n, distributable, failAt, thrown, broadcastOk) ==
  CASE ~initialized -> "EscrowManager not initialized"
    [] processEnv.FINAL_WALLET_ADDRESS = "" -> "FINAL_WALLET_ADDRESS not set"
    [] n = 0 -> "No UTXOs at game escrow"
    [] distributable < DUST_LIMIT -> "Escrow too low after fee"
    [] failAt > 0 -> "Failed to fetch source TX"
    [] thrown -> "thrown"
    [] ~broadcastOk -> "Settlement broadcast failed"
    [] OTHER -> "none"

\* settle(gameId, winnerAddress, winnerPayout, platformCut). fetchUTXOs
\* reports utxos; failAt is the first of them whose source transaction
\* fetchTxHexWithRetry does not get (0: it gets them all); thrown: building
\* or signing the transaction throws; broadcastOk is the answer of
\* broadcastRawTx. The record tells what the call returned, whether it got
\* as far as broadcastRawTx, and the number of inputs and the outputs of the
\* transaction it built (an input for every one of utxos).
settle(gameId, winnerAddress, winnerPayout, platformCut, utxos, failAt, thrown, broadcastOk) ==
  LET n == Len(utxos)
      available == SumSats(utxos)
      fee == feeEstimate(n)
      distributable == available - fee
      adjWinner == adjWinnerAt(distributable, winnerPayout, platformCut)
      adjPlatform == distributable - adjWinner
      toWinner == IF adjWinner > DUST_LIMIT THEN adjWinner ELSE 0
      toPlatform == IF adjPlatform > DUST_LIMIT THEN adjPlatform ELSE 0
      totalOut == toWinner + toPlatform
      change == available - totalOut - fee
      error == settleError(n, distributable, failAt, thrown, broadcastOk)
      split == error \in {"Failed to fetch source TX", "thrown",
                          "Settlement broadcast failed", "none"}
      sent == error \in {"Settlement broadcast failed", "none"}
  IN /\ settled' =
          [gameId |-> gameId, winnerPayout |-> winnerPayout,
           platformCut |-> platformCut, utxos |-> utxos, failAt |-> failAt,
           success |-> (error = "none"), error |-> error, broadcast |-> sent,
           inputs |-> IF sent THEN n ELSE 0,
           available |-> IF n > 0 /\ (split \/ error = "Escrow too low after fee")
                         THEN available ELSE 0,
           feeEstimate |-> IF n > 0 /\ (split \/ error = "Escrow too low after fee")
                           THEN fee ELSE 0,
           adjWinner |-> IF split THEN adjWinner ELSE 0,
           adjPlatform |-> IF split THEN adjPlatform ELSE 0,
           toWinner |-> IF sent THEN toWinner ELSE 0,
           toPlatform |-> IF sent THEN toPlatform ELSE 0,
           change |-> IF sent /\ change > DUST_LIMIT THEN change ELSE 0]
     /\ IF initialized /\ processEnv.FINAL_WALLET_ADDRESS # ""
        THEN noteDerived(gameId)
        ELSE UNCHANGED firstDerived
     /\ UNCHANGED <<gmVars, txVars, plVars, payVars, balance, registry>>
     /\ UNCHANGED <<processEnv, masterSeed, initialized, evicted, derived>>

\* handleGameEnd's call of settle for a game that ended with the result
\* endGame computed: only for a pot whose winner payout or platform cut
\* exceeds 546
settleGameEnd(gameId) ==
  /\ payPot > 0
  /\ payout.winnerPayout > SettleDust \/ payout.platformCut > SettleDust
  /\ \E utxos \in UtxoLists :
       \E failAt \in 0..Len(utxos) :
       \E thrown \in IF failAt = 0 THEN BOOLEAN ELSE {FALSE} :
       \E broadcastOk \in IF failAt = 0 /\ ~thrown THEN BOOLEAN ELSE {TRUE} :
         settle(gameId, address[winner], payout.winnerPayout,
                payout.platformCut, utxos, failAt, thrown, broadcastOk)

\* removeGame that deletes the game and leaves its sockets mapped
removeGame_keepsSockets(id) ==
  /\ id \notin evicted
  /\ evicted' = evicted \cup {id}
  /\ IF id = 1
     THEN /\ clearTurnTimer
          /\ clearPauseTimer
          /\ UNCHANGED playerToGame
     ELSE UNCHANGED <<playerToGame, turnTimer, turnTimerNo, pauseTimer>>
  /\ UNCHANGED <<gameVars, graceTimers, live, nextSock, callVars, gameEnds, ret>>
  /\ UNCHANGED <<txVars, plVars, payVars, balance, registry>>
  /\ UNCHANGED <<processEnv, masterSeed, initialized, firstDerived, derived, settled>>

\* removeGame(id), run a minute after handleGameEnd: the sockets of the game
\* are unmapped, its timers cleared and the game deleted from the manager;
\* the model keeps the fields of the deleted game as they were. Game 1 is
\* the game of the game variables.
removeGame(id) ==
  /\ id \notin evicted
  /\ evicted' = evicted \cup {id}
  /\ IF id = 1
     THEN /\ playerToGame' = playerToGame \ {socketId[s] : s \in Slots}
          /\ clearTurnTimer
          /\ clearPauseTimer
     ELSE UNCHANGED <<playerToGame, turnTimer, turnTimerNo, pauseTimer>>
  /\ UNCHANGED <<gameVars, graceTimers, live, nextSock, callVars, gameEnds, ret>>
  /\ UNCHANGED <<txVars, plVars, payVars, balance, registry>>
  /\ UNCHANGED <<processEnv, masterSeed, initialized, firstDerived, derived, settled>>

\* the server process starts again in the same environment: a new
\* EscrowManager and an empty GameManager
restart ==
  /\ masterSeed' = ""
  /\ initialized' = FALSE
  /\ evicted' = EscrowGames
  /\ playerToGame' = {}
  /\ clearTurnTimer
  /\ clearPauseTimer
  /\ UNCHANGED <<gameVars, graceTimers, live, nextSock, callVars, gameEnds, ret>>
  /\ UNCHANGED <<txVars, plVars, payVars, balance, registry>>
  /\ UNCHANGED <<processEnv, firstDerived, derived, settled>>

\* Game 1 has ended: each player missed once (600 satoshis to the pot each),
\* then player1 forfeited. endGame split the pot of 1200 under the configured
\* cut, one of cuts (the default, 30 percent or 100 percent: for these the
\* double product of the split is the real one), and handleGameEnd was
\* called with the result. The escrow manager is newly constructed, in a
\* process whose environment is one of envs.
EscrowStart(cuts, envs) ==
  /\ phase = "gameover"
  /\ currentTurn = "player2"
  /\ pot = 2 * missSats
  /\ pendingShot = NoShot
  /\ endReason = "forfeit"
  /\ winner = "player2"
  /\ pausedFor = "none"
  /\ socketId = [s \in Slots |-> IF s = "player1" THEN 1 ELSE 2]
  /\ sheepPositions = [s \in Slots |-> {<<3, 0>>}]
  /\ sheepReady = [s \in Slots |-> TRUE]
  /\ shotsReceived = [s \in Slots |-> (<<3, 1>> :> "miss")]
  /\ sheepRemaining = [s \in Slots |-> 1]
  /\ shotsFired = [s \in Slots |-> 1]
  /\ hits = [s \in Slots |-> 0]
  /\ misses = [s \in Slots |-> 1]
  /\ connected = [s \in Slots |-> TRUE]
  /\ turnTimer = FALSE
  /\ pauseTimer = FALSE
  /\ turnTimerNo = 3
  /\ graceTimers = [s \in Slots |-> 0]
  /\ playerToGame = {1, 2}
  /\ live = {1, 2}
  /\ nextSock = 3
  /\ inflight = <<>>
  /\ nCalls = 2
  /\ shotSeq = 2
  /\ applied = [i \in 1..(MaxCalls + 1) |-> IF i <= 2 THEN 1 ELSE 0]
  /\ ret = NoRet
  /\ payPot = pot
  /\ cutEnv \in cuts
  /\ payout = [winnerPayout |-> winnerPayoutAt(payPot, cutPctOf(cutEnv)),
               platformCut |-> payPot - winnerPayoutAt(payPot, cutPctOf(cutEnv))]
  /\ gameEnds = <<[winner |-> winner, reason |-> endReason, pot |-> pot,
                   winnerPayout |-> payout.winnerPayout,
                   platformCut |-> payout.platformCut, settle |-> TRUE]>>
  /\ TxInit
  /\ PlaceIdle
  /\ Funded
  /\ processEnv \in envs
  /\ EscrowNew
  /\ EscrowCalm
  /\ RegistryNew

\* derivation and settlement under the default cut, in every environment
InitEscrow == EscrowStart({EnvUnset}, EscrowEnvs)

NextEscrow ==
  \/ escrowInit
  \/ \E g \in EscrowGames : callDeriveGameKey(g)
  \/ \E g \in EscrowGames : callGetGameAddress(g)
  \* the game that has ended is game 1
  \/ settleGameEnd(1)
  \/ \E g \in EscrowGames : removeGame(g)
  \/ restart

SpecEscrow == InitEscrow /\ [][NextEscrow]_vars

\* settlement alone, under the three cuts, the seed being ESCROW_MASTER_SEED
\* where there is one
InitSettle ==
  EscrowStart({EnvUnset, EnvInt(30), EnvInt(100)},
              {e \in EscrowEnvs : e.ESCROW_WIF = ""})

NextSettle ==
  \/ escrowInit
  \/ \E g \in EscrowGames : settleGameEnd(g)

SpecSettle == InitSettle /\ [][NextSettle]_vars

\* ========================================================================
\* The game up to its removal from the registry
\* ========================================================================
\* the callback of the timer that handleGameEnd starts when it is done, 60
\* seconds after: removeGame for the game; a second such timer finds the game
\* gone
removalTimeout ==
  /\ Len(gameEnds) >= 1
  /\ removeGame(1)

\* the handlers of the game while it is in the registry, and its removal
NextEvict ==
  \/ 1 \notin evicted /\ Next
  \/ removalTimeout

\* a timer that has been started fires
SpecEvict == Init /\ [][NextEvict]_vars /\ WF_vars(removalTimeout)

\* ========================================================================
\* The registry of games (GameManager.games and GameManager.playerToGame)
\* ========================================================================
\* the uuids that createGame hands out, in the order of creation
GameIds == 1..MaxGames

\* Map.set and Map.delete
MapSet(m, k, v) == [x \in DOMAIN m \cup {k} |-> IF x = k THEN v ELSE m[x]]
MapDelete(m, ks) == [x \in DOMAIN m \ ks |-> m[x]]

\* getGameBySocket over the registry: the id of the game, 0 for undefined
gameIdBySocket(sid) ==
  IF sid \in DOMAIN registry.playerToGame
     /\ registry.playerToGame[sid] \in DOMAIN registry.games
  THEN registry.playerToGame[sid]
  ELSE 0

\* getSlot
slotOfSocket(g, sid) ==
  IF g.socketId["player1"] = sid THEN "player1"
  ELSE IF g.socketId["player2"] = sid THEN "player2"
  ELSE "none"

\* the rest of the model stays as it is
RegistryStep == UNCHANGED <<gmVars, txVars, plVars, payVars, balance, escVars>>

\* the game with one field of it assigned
withGame(id, g) == [registry EXCEPT !.games = MapSet(@, id, g)]

\* createGame as find_match and accept_challenge call it: the two sockets
\* are connected and differ, as do the addresses; neither handler looks for
\* a game that a socket is already in
createGame(p1Sid, p1Addr, p2Sid, p2Addr) ==
  LET id == registry.made + 1 IN
  /\ RegistryStep
  /\ registry.made < MaxGames
  /\ {p1Sid, p2Sid} \subseteq Sockets \ registry.gone
  /\ p1Sid # p2Sid /\ p1Addr # p2Addr
  /\ registry' = [registry EXCEPT
       !.made = id,
       !.games = MapSet(@, id,
          [phase |-> "setup",
           socketId |-> [player1 |-> p1Sid, player2 |-> p2Sid],
           address |-> [player1 |-> p1Addr, player2 |-> p2Addr],
           connected |-> [player1 |-> TRUE, player2 |-> TRUE]]),
       !.playerToGame = MapSet(MapSet(@, p1Sid, id), p2Sid, id)]

\* the second accepted placement of a game starts play
startPlayOf(id) ==
  /\ RegistryStep
  /\ id \in DOMAIN registry.games
  /\ registry.games[id].phase = "setup"
  /\ registry' = withGame(id, [registry.games[id] EXCEPT !.phase = "playing"])

\* the turn timer of a game in play fires: endGame
turnTimeoutOf(id) ==
  /\ RegistryStep
  /\ id \in DOMAIN registry.games
  /\ registry.games[id].phase = "playing"
  /\ registry' = withGame(id, [registry.games[id] EXCEPT !.phase = "gameover"])

\* forfeit from a connected socket: endGame for the game the socket is
\* mapped to, if the socket is a player of it and it is not over
forfeitOf(sid) ==
  LET id == gameIdBySocket(sid) IN
  /\ RegistryStep
  /\ sid \in Sockets \ registry.gone
  /\ id # 0
  /\ registry.games[id].phase # "gameover"
  /\ slotOfSocket(registry.games[id], sid) # "none"
  /\ registry' = withGame(id, [registry.games[id] EXCEPT !.phase = "gameover"])

\* the disconnect of a socket: handleDisconnect for the game the socket is
\* mapped to
handleDisconnectOf(sid) ==
  LET id == gameIdBySocket(sid)
      g == registry.games[id]
      slot == slotOfSocket(g, sid)
      left == [registry EXCEPT !.gone = @ \cup {sid}]
  IN
  /\ RegistryStep
  /\ sid \in Sockets \ registry.gone
  /\ IF id = 0 THEN registry' = left
     ELSE IF g.phase = "gameover" \/ slot = "none" THEN registry' = left
     ELSE IF g.phase = "setup"
     THEN registry' = [left EXCEPT !.games = MapSet(@, id,
            [g EXCEPT !.connected[slot] = FALSE, !.phase = "gameover"])]
     ELSE registry' = [left EXCEPT
            !.games = MapSet(@, id, [g EXCEPT !.connected[slot] = FALSE])]

\* the grace timer of a disconnect fires and finds the player still
\* disconnected in a game that is not over: endGame (a firing that finds the
\* game gone or over, or the player connected, returns)
graceTimeoutOf(id, slot) ==
  /\ RegistryStep
  /\ id \in DOMAIN registry.games
  /\ registry.games[id].phase = "playing"
  /\ ~registry.games[id].connected[slot]
  /\ registry' = withGame(id, [registry.games[id] EXCEPT !.phase = "gameover"])

\* handleReconnect from a connected socket, with the id of a game of the
\* registry and the address of one of its players (any other call fails
\* and changes nothing)
handleReconnectTo(sid, gameId, addr) ==
  LET g == registry.games[gameId]
      slot == IF g.address["player1"] = addr THEN "player1"
              ELSE IF g.address["player2"] = addr THEN "player2"
              ELSE "none"
  IN
  /\ RegistryStep
  /\ sid \in Sockets \ registry.gone
  /\ gameId \in DOMAIN registry.games
  /\ slot # "none"
  /\ registry' = [registry EXCEPT
       !.games = MapSet(@, gameId,
          [g EXCEPT !.connected[slot] = TRUE, !.socketId[slot] = sid]),
       !.playerToGame = MapSet(@, sid, gameId)]

\* removeGame, which the removal timer of handleGameEnd calls for a game
\* that is over
removeGameOf(id) ==
  LET g == registry.games[id]
      mine == {sid \in {g.socketId["player1"], g.socketId["player2"]} :
                 sid \in DOMAIN registry.playerToGame
                 /\ registry.playerToGame[sid] = id}
  IN
  /\ RegistryStep
  /\ id \in DOMAIN registry.games
  /\ g.phase = "gameover"
  /\ registry' = [registry EXCEPT
       !.playerToGame = MapDelete(@, mine),
       !.games = MapDelete(@, {id})]

NextRegistry ==
  \* the first player of a game gives addr1 and the second addr2
  \/ \E p1 \in Sockets, p2 \in Sockets : createGame(p1, "addr1", p2, "addr2")
  \/ \E id \in GameIds : startPlayOf(id)
  \/ \E id \in GameIds : turnTimeoutOf(id)
  \/ \E sid \in Sockets : forfeitOf(sid)
  \/ \E sid \in Sockets : handleDisconnectOf(sid)
  \/ \E id \in GameIds, slot \in Slots : graceTimeoutOf(id, slot)
  \/ \E sid \in Sockets, id \in GameIds, a \in {"addr1", "addr2"} :
        handleReconnectTo(sid, id, a)
  \/ \E id \in GameIds : removeGameOf(id)

SpecRegistry == Init /\ [][NextRegistry]_vars

\* ========================================================================
\* Properties of the game session state machine (specification Spec)
\* ========================================================================

\* C1: shotsReceived, the hits/misses/shotsFired counters, sheepRemaining, the
\* pot and currentTurn change only in a step in which a verifyShot call resumes
\* with verified = true; fireShot, the start of verifyShot and a verifyShot
\* whose verification failed leave all of them unchanged.
C1_OnlyVerifiedPaymentAdvances ==
  [][coreVars' # coreVars =>
       /\ \E i \in 1..MaxCalls : verifyShotVerified(i)
       /\ \A s \in Sockets, cell \in InputCells : ~fireShot(s, cell)
       /\ \A s \in Sockets : ~verifyShotStart(s)
       /\ \A i \in 1..MaxCalls : ~verifyShotFailed(i)
    ]_vars

\* C1 witness: a verified miss payment has just been applied, after a fireShot
\* that left the pot alone
C1_Witness ==
  /\ ret = Ret("verifyShot", TRUE, TRUE)
  /\ pot = missSats
  /\ phase = "playing"

\* C2 (as claimed): every pendingShot is applied to the game at most once.
C2_AppliedAtMostOnce == \A id \in DOMAIN applied : applied[id] <= 1

\* C3 (as claimed): once the phase is gameover, phase, winner, endReason, pot
\* and both players' counters never change again.
C3_GameoverIsTerminal ==
  [][phase = "gameover" =>
       UNCHANGED <<phase, winner, endReason, pot, shotsFired, hits, misses,
                   sheepRemaining>>]_vars

\* C4 (as claimed): handleGameEnd is triggered at most once per game.
C4_GameEndHandledOnce == Len(gameEnds) <= 1

\* C9: a verifyShot rejected for the wrong player and a verifyShot whose
\* verification failed leave the game, its pendingShot and its timers as they
\* were; a verifyShot call of the payer whose ps is still the installed
\* pendingShot and whose transaction verifies returns success and applies
\* exactly that shot (cell and outcome recorded against the defender, pending
\* shot cleared).
C9_FailedVerifyKeepsPendingShot ==
  [][ /\ \A s \in Sockets :
            (verifyShotStart(s) /\ VerifyError(s) # "")
               => UNCHANGED <<gameVars, timerVars>>
      /\ \A i \in 1..MaxCalls :
            verifyShotFailed(i)
               => (UNCHANGED <<gameVars, timerVars>> /\ ~ret'.success)
      /\ \A i \in 1..MaxCalls :
            (verifyShotVerified(i) /\ inflight[i].ps = pendingShot)
               => LET ps == pendingShot
                      def == opponentSlot(ps.shooter)
                  IN /\ ret' = Ret("verifyShot", TRUE, TRUE)
                     /\ ps.cell \in DOMAIN shotsReceived'[def]
                     /\ shotsReceived'[def][ps.cell] = (IF ps.isHit THEN "hit" ELSE "miss")
                     /\ pendingShot' = NoShot
                     /\ applied'[ps.id] = applied[ps.id] + 1
    ]_vars

\* C9 witness: two verifyShot calls were made for the first shot, one failed
\* and the other has just been applied
C9_Witness ==
  /\ nCalls = 2
  /\ shotSeq = 1
  /\ inflight = <<>>
  /\ applied[1] = 1
  /\ ret = Ret("verifyShot", TRUE, TRUE)

\* the cases of C10: the socket is not the turn-holder's, the cell is already
\* in the defender's shotsReceived, the cell is off the grid, the phase is not
\* playing, or a pendingShot exists
FireRejectCase(s, cell) ==
  \/ getSlot(s) # currentTurn
  \/ (getSlot(s) \in Slots /\ cell \in DOMAIN shotsReceived[opponentSlot(getSlot(s))])
  \/ ~isValidCell(cell[1], cell[2])
  \/ phase # "playing"
  \/ pendingShot # NoShot

\* C10: a fireShot in one of these cases returns failure and leaves the game
\* state and the timers unchanged.
C10_RejectedFireShotChangesNothing ==
  [][~(/\ ret' = Ret("fireShot", FALSE, FALSE)
       /\ UNCHANGED <<gameVars, timerVars, callVars>>)
        => \A s \in Sockets, cell \in InputCells :
              FireRejectCase(s, cell) => ~fireShot(s, cell)]_vars

\* C10 witness: a fireShot was rejected while a pendingShot was installed
C10_Witness ==
  /\ ret = Ret("fireShot", FALSE, FALSE)
  /\ phase = "playing"
  /\ pendingShot # NoShot

\* C11 (as claimed): in every state whose phase is playing a turn deadline is
\* running, also while a fired shot awaits its payment, so that a game whose
\* players stop acting is ended by the turn timer (reason timeout, the
\* turn-holder loses).
C11_TurnDeadlineRunsInPlaying == phase = "playing" => turnTimer

\* C13: a submitSheepPositions of a player who has already submitted changes
\* nothing of the game or its timers; in setup, a submission by a player who
\* has not submitted yet, of MAX_SHEEP distinct on-grid cells, stores exactly
\* those cells and sets the player ready; and the stored cells and the ready
\* flag of a player who has submitted never change again, by any step.
C13_PlacementAcceptedOncePerPlayer ==
  [][ \* no step that changes the game or its timers is the submission of a
      \* player who has already submitted
      /\ ~UNCHANGED <<gameVars, timerVars>> =>
            \A s \in Sockets :
              (getGameBySocket(s) /\ getSlot(s) \in Slots /\ sheepReady[getSlot(s)])
                 => \A positions \in SUBSET InputCells :
                       ~submitSheepPositions(s, positions)
      \* no step that fails to store the cells and set the player ready is a
      \* first submission, in setup, of MAX_SHEEP distinct on-grid cells
      /\ phase = "setup" =>
            \A s \in Sockets :
              (getGameBySocket(s) /\ getSlot(s) \in Slots /\ ~sheepReady[getSlot(s)])
                 => \A positions \in SUBSET GridCells :
                       (/\ Cardinality(positions) = MAX_SHEEP
                        /\ ~(/\ sheepPositions'[getSlot(s)] = positions
                             /\ sheepReady'[getSlot(s)]))
                          => ~submitSheepPositions(s, positions)
      /\ \A slot \in Slots :
            sheepReady[slot] =>
              (sheepReady'[slot] /\ sheepPositions'[slot] = sheepPositions[slot])
    ]_vars

\* C13 witness: in setup one player's placement has been accepted and stored,
\* the other player has not submitted
C13_Witness ==
  /\ phase = "setup"
  /\ sheepReady["player1"] /\ ~sheepReady["player2"]
  /\ Cardinality(sheepPositions["player1"]) = MAX_SHEEP

\* C14: after every step, if the phase is playing or paused then both players
\* are ready with exactly MAX_SHEEP stored cells; a step that takes the game
\* out of setup to a phase other than gameover is the accepted placement of
\* the second player, leads to playing, arms the turn timer and leaves no
\* pendingShot; and a step in setup after which both players are ready leads
\* to playing.
C14_PlayingStartsWithSecondPlacement ==
  [][ /\ phase' \in {"playing", "paused"} =>
            \A slot \in Slots :
               sheepReady'[slot] /\ Cardinality(sheepPositions'[slot]) = MAX_SHEEP
      /\ (phase = "setup" /\ phase' \notin {"setup", "gameover"}) =>
            /\ \E s \in Sockets, positions \in SUBSET InputCells :
                  /\ submitSheepPositions(s, positions)
                  /\ getSlot(s) \in Slots
                  /\ ~sheepReady[getSlot(s)]
                  /\ sheepReady[opponentSlot(getSlot(s))]
            /\ phase' = "playing"
            /\ turnTimer'
            /\ pendingShot' = NoShot
      /\ (phase = "setup" /\ \A slot \in Slots : sheepReady'[slot]) => phase' = "playing"
    ]_vars

\* C14 witness: the game has just left setup: playing, both ready, the turn
\* timer armed, no shot fired yet
C14_Witness ==
  /\ phase = "playing"
  /\ \A slot \in Slots : sheepReady[slot]
  /\ turnTimer
  /\ pendingShot = NoShot
  /\ shotSeq = 0

\* C15: every accepted fireShot installs a pendingShot that agrees with the
\* shot's resolution: the shot is a hit exactly when the cell is one of the
\* defender's sheep cells; on a hit the defender must pay hitSats to the
\* firer's address, on a miss the firer must pay missSats to the escrow address.
C15_PendingShotAgreesWithResolution ==
  [][ ret'.success => \A s \in Sockets, cell \in InputCells :
        fireShot(s, cell) =>
          LET slot == getSlot(s)
              defSlot == opponentSlot(slot)
              hit == cell \in sheepPositions[defSlot]
          IN /\ slot = currentTurn
             /\ pendingShot'.shooter = slot
             /\ pendingShot'.cell = cell
             /\ pendingShot'.isHit = hit
             /\ hit => /\ pendingShot'.requiredFrom = defSlot
                       /\ pendingShot'.requiredTo = address[slot]
                       /\ pendingShot'.requiredAmount = hitSats
             /\ ~hit => /\ pendingShot'.requiredFrom = slot
                        /\ pendingShot'.requiredTo = EscrowAddress
                        /\ pendingShot'.requiredAmount = missSats
    ]_vars

\* a hit has just been accepted: the defender owes hitSats to the firer
C15_Witness ==
  /\ ret = Ret("fireShot", TRUE, FALSE)
  /\ pendingShot # NoShot
  /\ pendingShot.isHit
  /\ pendingShot.cell \in sheepPositions[opponentSlot(pendingShot.shooter)]
  /\ pendingShot.requiredFrom = opponentSlot(pendingShot.shooter)
  /\ pendingShot.requiredAmount = hitSats

\* C16: when the payment of a miss is verified (by a call whose ps is the
\* installed pendingShot), the defender's shotsReceived records miss for the
\* cell, the firer's misses and shotsFired grow by one, the pot grows by
\* exactly the miss amount, pendingShot becomes null, currentTurn becomes the
\* defender, the turn timer is armed and nobody's sheepRemaining or hits change.
C16_VerifiedMissApplied ==
  [][ \A i \in 1..MaxCalls :
        (verifyShotVerified(i) /\ inflight[i].ps = pendingShot /\ ~pendingShot.isHit)
          => LET ps == pendingShot
                 firer == ps.shooter
                 def == opponentSlot(ps.shooter)
             IN /\ ps.cell \in DOMAIN shotsReceived'[def]
                /\ shotsReceived'[def][ps.cell] = "miss"
                /\ shotsReceived'[firer] = shotsReceived[firer]
                /\ misses' = [misses EXCEPT ![firer] = @ + 1]
                /\ shotsFired' = [shotsFired EXCEPT ![firer] = @ + 1]
                /\ pot' = pot + missSats
                /\ pendingShot' = NoShot
                /\ currentTurn' = def
                /\ turnTimer'
                /\ phase' = "playing"
                /\ UNCHANGED <<sheepRemaining, hits>>
    ]_vars

\* the first shot was a miss and its payment has just been verified
C16_Witness ==
  /\ ret = Ret("verifyShot", TRUE, TRUE)
  /\ phase = "playing"
  /\ applied[1] = 1
  /\ pot = missSats
  /\ pendingShot = NoShot
  /\ turnTimer
  /\ \E firer \in Slots :
       /\ misses[firer] = 1
       /\ shotsFired[firer] = 1
       /\ currentTurn = opponentSlot(firer)
       /\ \E cell \in GridCells :
            /\ cell \in DOMAIN shotsReceived[opponentSlot(firer)]
            /\ shotsReceived[opponentSlot(firer)][cell] = "miss"
  /\ \A slot \in Slots : sheepRemaining[slot] = MAX_SHEEP

\* C18 (as claimed): when the grace timer of a disconnect in playing or paused
\* fires and the player is still disconnected, the game is over, the opponent
\* is the winner and the recorded and the announced end reason are disconnect,
\* as for a disconnect in setup.
C18_GraceExpiryEndsWithDisconnect ==
  [][ \A slot \in Slots :
        (graceTimeout(slot) /\ phase \in {"playing", "paused"} /\ ~connected[slot])
          => /\ phase' = "gameover"
             /\ winner' = opponentSlot(slot)
             /\ endReason' = "disconnect"
             /\ Len(gameEnds') = Len(gameEnds) + 1
             /\ gameEnds'[Len(gameEnds')].winner = opponentSlot(slot)
             /\ gameEnds'[Len(gameEnds')].reason = "disconnect"
    ]_vars

\* C19: a handleReconnect with the game's id and the address of one of its
\* players binds that player's slot to the new socket and sets its connected
\* flag, and changes nothing else of the game: phase, currentTurn, pot,
\* pendingShot, winner, end reason, placements, counters, timers and the other
\* player's connection are as before, and no game end is announced; when the
\* pendingShot requires that player to pay, reconnect_result announces its
\* amount and destination.  The grace timer of the earlier disconnect, firing
\* while the player is connected again, changes nothing of the game either.
C19_ReconnectOnlyRestoresConnection ==
  [][ /\ \A s \in Sockets, addr \in Addresses :
           (handleReconnect(s, TRUE, addr) /\ slotOfAddress(addr) \in Slots)
             => LET slot == slotOfAddress(addr)
                    opp == opponentSlot(slot)
                IN /\ connected'[slot]
                   /\ socketId'[slot] = s
                   /\ s \in playerToGame'
                   /\ connected'[opp] = connected[opp]
                   /\ socketId'[opp] = socketId[opp]
                   /\ UNCHANGED <<phase, currentTurn, pot, pendingShot, endReason,
                                  winner, pausedFor, sheepPositions, sheepReady,
                                  shotsReceived, sheepRemaining, shotsFired, hits,
                                  misses, timerVars, callVars, gameEnds>>
                   /\ ret'.success
                   /\ (pendingShot # NoShot /\ pendingShot.requiredFrom = slot)
                        => /\ ret'.pendingPayment.amount = pendingShot.requiredAmount
                           /\ ret'.pendingPayment.toAddress = pendingShot.requiredTo
      /\ \A slot \in Slots :
           (graceTimeout(slot) /\ connected[slot])
             => UNCHANGED <<gameVars, turnTimer, pauseTimer, gameEnds>>
    ]_vars

\* the payer of a pendingShot disconnected in playing and has just reconnected
\* while the grace timer of the disconnect is still pending
C19_Witness ==
  /\ ret.op = "reconnect"
  /\ ret.success
  /\ phase = "playing"
  /\ pendingShot # NoShot
  /\ ret.pendingPayment = [amount |-> pendingShot.requiredAmount,
                           toAddress |-> pendingShot.requiredTo]
  /\ connected[pendingShot.requiredFrom]
  /\ socketId[pendingShot.requiredFrom] = 3
  /\ graceTimers[pendingShot.requiredFrom] = 1

\* C20 (as claimed): a game is ended for a disconnect only by the grace timer
\* of the player's latest disconnect.  The grace timers of one player all run
\* for RECONNECT_GRACE_MS and so fire in the order they were started: a
\* callback that fires while another timer of the same player is still pending
\* belongs to an earlier disconnect, and must not end the game.
C20_OnlyLatestGraceTimerEndsGame ==
  [][ \A slot \in Slots :
        (graceTimeout(slot) /\ phase # "gameover" /\ phase' = "gameover")
          => graceTimers[slot] = 1
    ]_vars

\* C21: the disconnect of a player's socket while the game is in setup ends
\* the game in that step, with the opponent as winner and reason disconnect
\* (recorded and announced), and starts no grace timer.
C21_DisconnectInSetupEndsGame ==
  [][ \A s \in Sockets :
        (handleDisconnect(s) /\ getGameBySocket(s) /\ getSlot(s) \in Slots
           /\ phase = "setup")
          => LET slot == getSlot(s) IN
             /\ phase' = "gameover"
             /\ winner' = opponentSlot(slot)
             /\ endReason' = "disconnect"
             /\ ~connected'[slot]
             /\ UNCHANGED graceTimers
             /\ Len(gameEnds') = Len(gameEnds) + 1
             /\ gameEnds'[Len(gameEnds')].winner = opponentSlot(slot)
             /\ gameEnds'[Len(gameEnds')].reason = "disconnect"
    ]_vars

\* a player disconnected before both placements were in: the game is over for
\* disconnect and no grace timer runs
C21_Witness ==
  /\ phase = "gameover"
  /\ endReason = "disconnect"
  /\ \E slot \in Slots :
       /\ ~connected[slot]
       /\ winner = opponentSlot(slot)
       /\ ~sheepReady[slot]
  /\ \A slot \in Slots : graceTimers[slot] = 0
  /\ Len(gameEnds) = 1
  /\ gameEnds[1].reason = "disconnect"

\* C22: a forfeit from a player's socket before gameover ends the game with
\* the opponent as winner and reason forfeit (recorded and announced),
\* whatever the phase and whether or not a pendingShot is installed; a forfeit
\* on a finished game returns nothing and changes nothing.
C22_ForfeitEndsGame ==
  [][ \A s \in Sockets :
        (forfeit(s) /\ getGameBySocket(s) /\ getSlot(s) \in Slots)
          => LET slot == getSlot(s) IN
             IF phase # "gameover"
             THEN /\ phase' = "gameover"
                  /\ winner' = opponentSlot(slot)
                  /\ endReason' = "forfeit"
                  /\ pendingShot' = NoShot
                  /\ Len(gameEnds') = Len(gameEnds) + 1
                  /\ gameEnds'[Len(gameEnds')].winner = opponentSlot(slot)
                  /\ gameEnds'[Len(gameEnds')].reason = "forfeit"
             ELSE /\ ret' = NoRet
                  /\ UNCHANGED <<gameVars, timerVars, gameEnds>>
    ]_vars

\* a player forfeited while a shot was awaiting its payment
C22_Witness ==
  /\ phase = "gameover"
  /\ endReason = "forfeit"
  /\ winner \in Slots
  /\ shotSeq = 1
  /\ applied[1] = 0
  /\ pendingShot = NoShot
  /\ Len(gameEnds) = 1
  /\ gameEnds[1].reason = "forfeit"

\* ========================================================================
\* Properties of the pause for funds (specifications SpecFunds, SpecPause)
\* ========================================================================

\* C24 (as claimed): once a pendingShot is installed whose payer's balance
\* does not cover the required amount, the game is paused for that payer: the
\* phase is paused, pausedFor is the payer, the turn timer is stopped and the
\* funds-deadline timer runs.
C24_ShortPayerPausesGame ==
  (phase # "gameover" /\ pendingShot # NoShot
     /\ ~checkPlayerBalance(pendingShot.requiredFrom, pendingShot.requiredAmount))
    => /\ phase = "paused"
       /\ pausedFor = pendingShot.requiredFrom
       /\ ~turnTimer
       /\ pauseTimer

C17_VerifiedHitApplied ==
  [][ \A i \in 1..MaxCalls :
        (verifyShotVerified(i) /\ inflight[i].ps = pendingShot /\ pendingShot.isHit)
          => LET ps == pendingShot
                 firer == ps.shooter
                 def == opponentSlot(ps.shooter)
             IN /\ sheepRemaining' = [sheepRemaining EXCEPT ![def] = @ - 1]
                /\ pot' = pot
                /\ IF sheepRemaining[def] - 1 = 0
                   THEN /\ phase' = "gameover"
                        /\ winner' = firer
                        /\ endReason' = "all_sheep_sunk"
                   ELSE /\ phase' = "playing"
                        /\ currentTurn' = def
                        /\ turnTimer'
                        /\ pendingShot' = NoShot
                        /\ winner' = "none"
    ]_vars

\* a hit that was not the last one has just been verified: the defender has
\* one of two sheep left and holds the turn
C17_Witness ==
  /\ ret = Ret("verifyShot", TRUE, TRUE)
  /\ phase = "playing"
  /\ applied[1] = 1
  /\ pot = 0
  /\ pendingShot = NoShot
  /\ turnTimer
  /\ \E def \in Slots :
       /\ Cardinality(sheepPositions[def]) = 2
       /\ sheepRemaining[def] = 1
       /\ hits[opponentSlot(def)] = 1
       /\ currentTurn = def

\* ========================================================================
\* Properties of payment verification (specification SpecTx)
\* ========================================================================

\* C5 (as claimed): no verifyAndBroadcastTx call that starts after a
\* verified=true return for a transaction id returns verified=true for the
\* same transaction id.
C5_AcceptedTxidNeverAcceptedAgain == ~(txRet.verified /\ txObs.afterAccept)

\* C6 (as claimed): of two calls carrying the same transaction for two
\* different games that are in flight together, at most one returns
\* verified=true.
C6_RacingCallsAcceptAtMostOnce == ~(txRet.verified /\ txObs.rivalOk)

\* C7: while an outpoint o is held, unexpired, by a game g1, claim(o, g2) of
\* any other game g2 returns false, takes no claim and leaves every unexpired
\* claim, the one on o with its expiry included, as it was (the entries it
\* drops are the expired ones, which no claim() treats as claims); in every
\* state, claim(o, g2) made after release(o) succeeds and records g2.
C7_OutpointHeldByOneGame ==
  \A o \in Outpoints, g2 \in Games :
    LET g1 == Holder(spentTracker, o, now)
        r == claim(spentTracker, o, g2, now)
        again == claim(release(spentTracker, o), o, g2, now)
    IN /\ (g1 # NoGame /\ g1 # g2) =>
            /\ ~r.ok
            /\ r.tr = pruneExpired(spentTracker, now)
            /\ \A q \in Outpoints : Holder(r.tr, q, now) = Holder(spentTracker, q, now)
            /\ r.tr.claimed[o] = g1
            /\ r.tr.expiry[o] = spentTracker.expiry[o]
       /\ again.ok
       /\ again.tr.claimed[o] = g2

\* C7 witness: a call has just been rejected because an input of its
\* transaction is held, unexpired, by another game
C7_Witness ==
  /\ txRet = TxResult(FALSE, 0, "UTXO already claimed by another game")
  /\ \E o \in Outpoints :
        Holder(spentTracker, o, now) \notin {NoGame, txObs.gameId}

\* C8 (as claimed): when a call returns verified=false, none of the outpoints
\* it had newly claimed is still claimed by its game.
C8_FailedCallReleasesItsClaims == ~txRet.verified => txObs.leftover = {}

\* ========================================================================
\* Properties of the placement check (specification SpecPlace)
\* ========================================================================
\* the hex-adjacent connected group of `group` within the cells S
RECURSIVE HerdOf(_, _)
HerdOf(S, group) ==
  LET grown == group \cup {c \in S : \E g \in group : c \in getHexNeighbors(g[1], g[2])}
  IN IF grown = group THEN group ELSE HerdOf(S, grown)

\* the connected groups of S have exactly the sizes HERD_SIZES, one of each
FormsHerds(S) ==
  LET herds == {HerdOf(S, {c}) : c \in S} IN
  /\ Cardinality(herds) = Len(HERD_SIZES)
  /\ \A i \in 1..Len(HERD_SIZES) :
        Cardinality({h \in herds : Cardinality(h) = HERD_SIZES[i]}) = 1

\* C12 (as claimed): a placement is accepted only if it consists of 10
\* distinct on-grid cells whose hex-adjacent connected groups have exactly the
\* sizes 4, 3, 2 and 1.
C12_AcceptedPlacementFormsHerds ==
  placeResult = "accepted" =>
    /\ Cardinality(placement) = FullHerd
    /\ \A p \in placement : isValidCell(p[1], p[2])
    /\ FormsHerds(placement)

\* ========================================================================
\* Further properties of payment verification (specification SpecTx)
\* ========================================================================

\* C26 (as claimed): a verifyAndBroadcastTx call returns verified=true only
\* for a transaction all of whose inputs spend outputs of the payer address
\* passed to the call.
C26_VerifiedTxIsFundedByPayer ==
  [][ \A i \in 1..MaxTxCalls :
        (broadcastDone(i, TRUE) /\ txRet'.verified)
          => FundersOf(txCalls[i].rawTxHex) = {txCalls[i].payerAddress}
    ]_vars

\* the sum of the satoshis of the outputs of outputs whose index is in S
RECURSIVE SumOver(_, _)
SumOver(outputs, S) ==
  IF S = {} THEN 0
  ELSE LET k == CHOOSE x \in S : TRUE
       IN outputs[k].satoshis + SumOver(outputs, S \ {k})

\* the sum of the outputs of tx that are locked to addr
LockedTo(tx, addr) ==
  SumOver(tx.outputs, {k \in 1..Len(tx.outputs) : tx.outputs[k].to = addr})

\* C27: a call whose transaction is not well-formed, is a replay, or pays the
\* required address less than the required amount returns verified=false at
\* once and leaves the claim record, the used-id set and the calls in flight
\* (which alone can broadcast) as they were; a call that passes these gates
\* carries as its payment amount the sum of the outputs locked to the required
\* address, which is at least the required amount; and a call that returns
\* verified=true returns that amount.
C27_AmountGateBeforeClaims ==
  [][ /\ \A rawTxHex \in Txs \cup {BadHex}, expectedTo \in {EscrowAddress, "addr1"},
           expectedMin \in {missSats} :
           (rawTxHex = BadHex \/ rawTxHex \in usedTxids
              \/ LockedTo(rawTxHex, expectedTo) < expectedMin)
             => \A gameId \in {1}, payerAddress \in {"addr1"} :
                  verifyAndBroadcastTx(rawTxHex, expectedTo, expectedMin, gameId,
                                       payerAddress)
                    => /\ ~txRet'.verified
                       /\ UNCHANGED <<spentTracker, usedTxids, txidTimestamps,
                                      txCalls, accepted>>
      /\ Len(txCalls') > Len(txCalls)
           => \A rawTxHex \in Txs \cup {BadHex}, expectedTo \in {EscrowAddress, "addr1"},
                 expectedMin \in {missSats}, gameId \in {1},
                 payerAddress \in {"addr1"} :
                 verifyAndBroadcastTx(rawTxHex, expectedTo, expectedMin, gameId,
                                      payerAddress)
                   => /\ txCalls'[Len(txCalls')].paymentAmount
                           = LockedTo(rawTxHex, expectedTo)
                      /\ LockedTo(rawTxHex, expectedTo) >= expectedMin
      /\ \A i \in 1..MaxTxCalls :
           /\ broadcastDone(i, TRUE)
                => /\ txRet'.verified
                   /\ txRet'.amount = txCalls[i].paymentAmount
           /\ ((broadcastDone(i, FALSE)
                   \/ \E o \in {"true", "false", "throws"} : verifyDone(i, o))
                 /\ Len(txCalls') < Len(txCalls))
                => ~txRet'.verified
    ]_vars

\* a transaction was accepted before, and a call whose transaction pays the
\* escrow address 100 where missSats are required has just been rejected with
\* no outpoint claimed
C27_Witness ==
  /\ txRet = TxResult(FALSE, 100, "Insufficient payment")
  /\ accepted # {}
  /\ usedTxids # {}
  /\ txCalls = <<>>
  /\ \A o \in Outpoints : Holder(spentTracker, o, now) # txObs.gameId

\* ========================================================================
\* Properties of the payout split (specification SpecPayout)
\* ========================================================================

\* C23 (as claimed): for a pot >= 0 and a configured cut percentage c in
\* 0..100, endGame reports winnerPayout = floor(pot * (100 - c) / 100) and
\* platformCut = pot - winnerPayout, both non-negative.
C23_PayoutIsFloorOfShare ==
  (payout # NoPayout /\ cutEnv.set /\ cutEnv.value \in 0..100)
    => /\ payout.winnerPayout = (payPot * (100 - cutEnv.value)) \div 100
       /\ payout.platformCut = payPot - payout.winnerPayout
       /\ payout.winnerPayout >= 0
       /\ payout.platformCut >= 0

\* ========================================================================
\* Properties of the escrow manager (specification SpecEscrow)
\* ========================================================================
\* C28: under a fixed master seed every derivation for a game id returns the
\* key and the address that were derived for that id the first time,
\* whatever was derived, settled or evicted in between and also after the
\* process started again and init() read the same seed.
C28_DerivationRepeats ==
  /\ derived.ok /\ derived.op = "deriveGameKey"
       => derived.key = firstDerived[derived.gameId].key
  /\ derived.ok /\ derived.op = "getGameAddress"
       => derived.address = firstDerived[derived.gameId].address
  /\ \A g \in EscrowGames :
       initialized /\ firstDerived[g] # NoDerivation
         => /\ deriveGameKey(g) = firstDerived[g].key
            /\ getGameAddress(g) = firstDerived[g].address

\* game 2 was derived, then game 1 was settled and evicted and the process
\* started again, and the address of game 2 has been asked for once more
C28_Witness ==
  /\ derived.ok /\ derived.op = "getGameAddress" /\ derived.gameId = 2
  /\ firstDerived[1] # NoDerivation
  /\ settled.gameId = 1
  /\ evicted = EscrowGames
  /\ initialized

\* C29: settle returns failure, and does not get as far as broadcasting,
\* when the escrow address has no unspent outputs, when what is available
\* less the estimated fee is below 546, and when a source transaction cannot
\* be fetched; the step leaves the game in gameover with its winner, reason
\* and pot.
C29_SettleFailsBeforeBroadcast ==
  [][settled' # settled
       /\ ( \/ Len(settled'.utxos) = 0
            \/ SumSats(settled'.utxos) - feeEstimate(Len(settled'.utxos)) < 546
            \/ settled'.failAt > 0 )
     => /\ ~settled'.success
        /\ ~settled'.broadcast
        /\ settled'.toWinner = 0 /\ settled'.toPlatform = 0 /\ settled'.change = 0
        /\ phase' = "gameover"
        /\ UNCHANGED <<phase, winner, endReason, pot>>]_vars

\* an initialized manager with the final wallet set has settled game 1 on
\* an escrow of one output of 1200 satoshis whose source transaction was not
\* fetched, and has returned that failure
C29_Witness ==
  /\ initialized /\ processEnv.FINAL_WALLET_ADDRESS # ""
  /\ settled.gameId = 1
  /\ settled.utxos = <<hitSats>> /\ settled.failAt = 1
  /\ settled.error = "Failed to fetch source TX"
  /\ ~settled.success
  /\ phase = "gameover"

\* C30: when settle splits the escrow, the winner amount is
\* floor(distributable * winnerPayout / (winnerPayout + platformCut)) and the
\* platform amount is distributable less the winner amount, distributable
\* being the sum of the escrow's unspent outputs less the estimated fee; the
\* two amounts sum to distributable and what the transaction pays out does
\* not exceed it.
C30_SplitIsFloorOfShare ==
  settled.gameId # 0 /\ settled.broadcast
    => LET distributable ==
             SumSats(settled.utxos) - feeEstimate(Len(settled.utxos))
           totalExpected == settled.winnerPayout + settled.platformCut
       IN /\ totalExpected > 0
          /\ settled.adjWinner =
               (distributable * settled.winnerPayout) \div totalExpected
          /\ settled.adjPlatform = distributable - settled.adjWinner
          /\ settled.adjWinner + settled.adjPlatform = distributable
          /\ settled.toWinner + settled.toPlatform <= distributable

\* C31: a successful settlement transaction spends every unspent output of
\* the escrow and conserves value: the input total is the winner output plus
\* the platform output plus the change output to the escrow address plus the
\* estimated fee; a share is paid only if it is above 546, and what is not
\* paid to the winner or the platform goes back to the escrow address.
C31_SettlementConservesValue ==
  settled.gameId # 0 /\ settled.success
    => /\ settled.inputs = Len(settled.utxos)
       /\ settled.toWinner =
            IF settled.adjWinner > 546 THEN settled.adjWinner ELSE 0
       /\ settled.toPlatform =
            IF settled.adjPlatform > 546 THEN settled.adjPlatform ELSE 0
       /\ SumSats(settled.utxos) =
            settled.toWinner + settled.toPlatform + settled.change
              + feeEstimate(Len(settled.utxos))

\* ========================================================================
\* Further properties of the game session state machine (specification Spec)
\* ========================================================================
\* C32: a game that has reached gameover, by whatever end reason, is in the
\* end removed from the registry, with its timers cleared and the socket ids
\* of both players unmapped, by the timer that its end-of-game handling
\* starts.
C32_EndedGameIsRemoved ==
  (phase = "gameover")
    ~> ( /\ 1 \in evicted
         /\ ~turnTimer /\ ~pauseTimer
         /\ \A s \in Slots : socketId[s] \notin playerToGame )

\* the game ended by a forfeit and has been removed
C32_Witness ==
  /\ phase = "gameover" /\ endReason = "forfeit"
  /\ Len(gameEnds) = 1
  /\ 1 \in evicted
  /\ \A s \in Slots : socketId[s] \notin playerToGame

\* C33: in playing and in paused, a pendingShot that is installed means that
\* no turn timer is armed, and the turn timer and the pause timer are never
\* armed together; in playing without a pendingShot the turn timer is armed.
C33_TimersAgreeWithPendingShot ==
  /\ phase \in {"playing", "paused"}
       => /\ pendingShot # NoShot => ~turnTimer
          /\ ~(turnTimer /\ pauseTimer)
  /\ phase = "playing" /\ pendingShot = NoShot => turnTimer

\* the second shot of the game is awaiting its payment in playing, with the
\* turn timer cleared
C33_Witness ==
  /\ phase = "playing"
  /\ pendingShot # NoShot /\ pendingShot.id = 2
  /\ ~turnTimer /\ ~pauseTimer

\* C34: a turn timer armed for one turn does not end the game in a later
\* turn. Every step in which a shot is fired or a verified payment applied
\* leaves no turn timer armed, or only a timer started in that very step, so
\* the timer of the earlier turn cannot fire afterwards; and the turn timer
\* ends the game only in playing, with no shot awaiting its payment, against
\* the player whose turn it is.
C34_TurnTimerDiesWithItsTurn ==
  [][ /\ (shotSeq' # shotSeq \/ applied' # applied)
           => (~turnTimer' \/ turnTimerNo' # turnTimerNo)
      /\ (turnTimer /\ graceTimers' = graceTimers
            /\ phase # "gameover" /\ phase' = "gameover" /\ endReason' = "timeout")
           => /\ phase = "playing"
              /\ pendingShot = NoShot
              /\ winner' = opponentSlot(currentTurn)
              /\ ~turnTimer' ]_vars

\* a payment has been verified and the next turn's timer is armed, the third
\* turn timer of the game
C34_Witness ==
  /\ phase = "playing"
  /\ turnTimer /\ turnTimerNo = 3
  /\ pendingShot = NoShot
  /\ applied[2] = 1

\* C35: in gameover no pendingShot is installed, neither the turn timer nor
\* the pause timer is armed, and winner and endReason are set; in every
\* other phase winner and endReason are not set.
C35_GameoverIsSettled ==
  /\ phase = "gameover"
       => /\ pendingShot = NoShot
          /\ ~turnTimer /\ ~pauseTimer
          /\ winner \in Slots /\ endReason # "none"
  /\ phase # "gameover" => winner = "none" /\ endReason = "none"

\* C36: a verifyShot call that completes while the pendingShot installed is
\* a newer one than the shot it was submitted for applies nothing: it leaves
\* the new pendingShot installed, the turn with its holder and the turn
\* timer as it is.
C36_LateCompletionSparesNewShot ==
  [][\A i \in 1..Len(inflight) :
       /\ inflight' = RemoveAt(inflight, i)
       /\ pendingShot # NoShot
       /\ inflight[i].ps.id # pendingShot.id
       => /\ pendingShot' = pendingShot
          /\ currentTurn' = currentTurn
          /\ applied' = applied
          /\ UNCHANGED <<turnTimer, turnTimerNo>>]_vars

\* C37: each player's sheepRemaining lies in 0..MAX_SHEEP and is MAX_SHEEP
\* less the number of hit entries in that player's shotsReceived, and it is 0
\* only in a finished game.
C37_SheepRemainingCountsHits ==
  \A s \in Slots :
    LET hitEntries == {k \in DOMAIN shotsReceived[s] : shotsReceived[s][k] = "hit"} IN
    /\ sheepRemaining[s] \in 0..MAX_SHEEP
    /\ sheepRemaining[s] = MAX_SHEEP - Cardinality(hitEntries)
    /\ sheepRemaining[s] = 0 => phase = "gameover"

\* C38: the pot is missSats for every miss entry of the two shotsReceived
\* maps, each player's misses and hits counters are the miss and hit entries
\* of the opponent's shotsReceived, and shotsFired is hits plus misses.
C38_CountersMatchEntries ==
  LET entries(slot, kind) ==
        Cardinality({k \in DOMAIN shotsReceived[slot] : shotsReceived[slot][k] = kind})
  IN
  /\ pot = missSats * (entries("player1", "miss") + entries("player2", "miss"))
  /\ \A s \in Slots :
       /\ misses[s] = entries(opponentSlot(s), "miss")
       /\ hits[s] = entries(opponentSlot(s), "hit")
       /\ shotsFired[s] = hits[s] + misses[s]

\* ========================================================================
\* Properties of the registry (specification SpecRegistry)
\* ========================================================================

\* C39: for every game of the registry that is not over, the current socket
\* id of each of its players is mapped to that game, whatever createGame,
\* handleDisconnect, handleReconnect and removeGame calls came before.
C39_PlayersMappedToTheirGame ==
  \A id \in DOMAIN registry.games :
    registry.games[id].phase # "gameover" =>
      \A slot \in Slots : gameIdBySocket(registry.games[id].socketId[slot]) = id

\* ========================================================================
\* Further properties of the payment verification (specification SpecGate)
\* ========================================================================
\* C40: when a call of a game returns verified=false after one of its awaits,
\* every outpoint that the game holds and that a transaction of the game
\* accepted before, or another call of the game still in flight, spends stays
\* claimed by the game.
C40_FailedCallSparesSiblingClaims ==
  [][\A i \in 1..Len(txCalls) :
       (txCalls' = RemoveAt(txCalls, i) /\ ~txRet'.verified) =>
          \A o \in Outpoints :
            /\ Holder(spentTracker, o, now) = txCalls[i].gameId
            /\ \/ \E t \in accepted : \E k \in 1..Len(t.inputs) : t.inputs[k] = o
               \/ \E j \in 1..Len(txCalls) \ {i} :
                     /\ txCalls[j].gameId = txCalls[i].gameId
                     /\ \E k \in 1..Len(txCalls[j].inputOutpoints) :
                           txCalls[j].inputOutpoints[k] = o
            => Holder(spentTracker', o, now') = txCalls[i].gameId]_vars

====
